---------------------------- MODULE Spec2Model ----------------------------
(***************************************************************************)
(* State-machine model of the physicanova demonstration pages.             *)
(*                                                                         *)
(* Every page is an independent script bound to its own HTML document      *)
(* (src/millikan.js holds the Millikan page and the photoelectric page,    *)
(* src/frank_hertz.js the Franck-Hertz page, src/michelson_morley.js the   *)
(* Compton page).  The variable `page` says which script is loaded; only   *)
(* the handlers of that script ever run.                                   *)
(*                                                                         *)
(* Numbers.  The scripts compute in IEEE doubles.  The model computes in   *)
(* fixed point, each quantity in the unit stated beside it, and rounds by  *)
(* integer division where a double would round in its last bit.  NaN and   *)
(* the infinities are kept as distinguished values (section "doubles").    *)
(***************************************************************************)
EXTENDS Integers, Sequences, FiniteSets, TLC

VARIABLES
    page,     \* which script is loaded
    now,      \* timestamp (ms) handed to the last animation frame
    drawn,    \* what the last frame put on the canvas, in drawing order
    events,   \* control events (slider, button, click) handled so far
    pe,       \* photoelectric page: the object `state`
    mk,       \* Millikan page: the module-level lets
    fh,       \* Franck-Hertz page: the object `state` and the tube canvas
    co,       \* Compton page: the object `state`
    sn        \* Snell page: the module-level lets and the running intervals

vars == <<page, now, drawn, events, pe, mk, fh, co, sn>>

----------------------------------------------------------------------------
(* Bounds of the model *)

MaxEvents == 2         \* control events per behaviour
MaxTicks == 5          \* animation frames per behaviour
MaxElectrons == 2      \* particles: pool size (photoelectric), objects built (others)

----------------------------------------------------------------------------
(* Sequence helpers *)

\* a handler of the control boundary runs
Control == events < MaxEvents /\ events' = events + 1

Range(s) == {s[i] : i \in DOMAIN s}

Abs(n) == IF n < 0 THEN -n ELSE n

RECURSIVE Pow10(_)
Pow10(n) == IF n = 0 THEN 1 ELSE 10 * Pow10(n - 1)

\* Math.sqrt on a non-negative fixed-point number: the floor of the root.
RECURSIVE SqrtSearch(_, _, _)
SqrtSearch(n, lo, hi) ==
    IF lo >= hi THEN lo
    ELSE LET mid == (lo + hi + 1) \div 2
         IN  IF mid * mid <= n THEN SqrtSearch(n, mid, hi)
             ELSE SqrtSearch(n, lo, mid - 1)

ISqrt(n) == SqrtSearch(n, 0, 46340)

\* Math.cos and Math.sin of an angle given in tenths of a radian, in
\* thousandths; the table covers the angles the pages draw (|a| <= 1.1 rad).
CosTable == <<1000, 995, 980, 955, 921, 878, 825, 765, 697, 622, 540, 454>>
SinTable == <<0, 100, 199, 296, 389, 479, 565, 644, 717, 783, 841, 891>>

CosMilli(a10) == CosTable[Abs(a10) + 1]
SinMilli(a10) == IF a10 < 0 THEN -SinTable[-a10 + 1] ELSE SinTable[a10 + 1]

\* Multiplication of a signed fixed-point number by thousandths, truncating
\* toward zero.
MulMilli(v, m) ==
    LET p == v * m
    IN  IF p < 0 THEN -((-p) \div 1000) ELSE p \div 1000


----------------------------------------------------------------------------
(* Photoelectric page (src/millikan.js, second script)                      *)
(*                                                                         *)
(* Units: positions in 1/100 px, velocities in 1/100 px per frame,         *)
(* energies in 1/100 eV, voltage in V, timestamps in ms.                   *)

HC == 1240
SCALE_SPEED == 2

GEO == [tubeCenter |-> [x |-> 40000, y |-> 25000],
        cathode    |-> [center |-> [x |-> 35000, y |-> 25000],
                        radius |-> 18000, angleSpread |-> 6],
        anode      |-> [x |-> 30000, y |-> 25000, w |-> 1000, h |-> 20000]]

METALS == [sodium |-> 236, calcium |-> 290, zinc |-> 430,
           copper |-> 470, platinum |-> 635, unknown |-> 350]

\* canvas.width of the photoelectric canvas (set by the page markup)
PeCanvasWidth == 80000

\* The values the controls deliver to the handlers.  The handlers store
\* whatever number the control holds; the script itself applies no limit.
LambdaInputs == {700}
IntensityInputs == {0, 40}
VoltageInputs == {-1500, 1500}
MetalInputs == {"sodium", "copper"}

\* Gaps between the timestamps of consecutive animation frames (ms)
FrameGaps == {100, 500}

\* Outcomes of the Math.random() calls of one spawn: the position on the
\* cathode arc (theta, tenths of a radian), the emission spread (tenths of
\* a radian) and the share of the maximal kinetic energy (percent).
Draws == [theta : {0}, spread : {0}, ke : {90}]

\* value of ammeterCurrent in microampere: m / 10^(e+1)
AmpZero == [m |-> 0, e |-> 0]

PeInit == [lambda |-> 510, intensity |-> 5, voltage |-> 0,
           workFunction |-> 236, metalName |-> "sodium",
           electrons |-> <<>>, ammeterCurrent |-> AmpZero, time |-> 0,
           hitHistory |-> <<>>,
           current |-> 0,      \* the local `current` of the last frame, 1/10 uA
           hitLog |-> <<>>,    \* every recordHit call: [id, t]
           refused |-> {},     \* the [lambda, workFunction] at which a spawn returned early
           attempts |-> 0,     \* spawnRandomElectron calls of the last frame
           nextId |-> 1]       \* identity of the next electron object

\* Variant for C2: the early return of spawnElectron is missing.
BelowThreshold_never(lambda, workFn) == FALSE

\* photonE <= workFn, with photonE = HC / lambda (lambda > 0)
BelowThreshold(lambda, workFn) == HC * 100 <= workFn * lambda

spawnElectron(s, x, y, normalAngle, d) ==
    LET photonE == (HC * 100) \div s.lambda
        workFn == s.workFunction
        maxKE == photonE - workFn
        ke == (maxKE * d.ke) \div 100
        speed == ISqrt(ke * 100) * SCALE_SPEED
        angle == normalAngle + d.spread      \* measured from the -x axis
    IN  IF BelowThreshold(s.lambda, workFn)
        THEN [s EXCEPT !.refused = @ \cup {[lambda |-> s.lambda, workFunction |-> workFn]}]
        ELSE [s EXCEPT
                !.electrons = Append(@, [id |-> s.nextId, x |-> x, y |-> y,
                                         vx |-> -MulMilli(speed, CosMilli(angle)),
                                         vy |-> -MulMilli(speed, SinMilli(angle)),
                                         ke |-> ke, dead |-> FALSE]),
                !.nextId = @ + 1]

spawnRandomElectron(s, d) ==
    LET theta == d.theta
        cx == GEO.cathode.center.x
        cy == GEO.cathode.center.y
        r == GEO.cathode.radius
        ex == cx + MulMilli(r, CosMilli(theta))
        ey == cy + MulMilli(r, SinMilli(theta))
    IN  spawnElectron([s EXCEPT !.attempts = @ + 1], ex - 200, ey, theta, d)

\* hypot(dx, dy) > r
FartherThan(dx, dy, r) ==
    \/ Abs(dx) > r
    \/ Abs(dy) > r
    \/ dx * dx + dy * dy > r * r

\* The body of the forEach of updateElectrons for one electron; hit tells
\* whether recordHit was called for it.
MoveElectron(s, e) ==
    LET forceFactor == s.voltage * 5
        tubeTop == GEO.tubeCenter.y - 12000
        tubeBottom == GEO.tubeCenter.y + 12000
        vx == e.vx - forceFactor
        x == e.x + vx
        y == e.y + e.vy
        anodeHit == /\ x <= GEO.anode.x + GEO.anode.w
                    /\ x >= GEO.anode.x
                    /\ Abs(y - GEO.anode.y) < GEO.anode.h \div 2
                    /\ ~e.dead
        cathode == /\ FartherThan(x - GEO.cathode.center.x,
                                  y - GEO.cathode.center.y, GEO.cathode.radius)
                   /\ x > GEO.cathode.center.x
        glass == x < GEO.anode.x
        outside == y < tubeTop \/ y > tubeBottom \/ x < 0 \/ x > PeCanvasWidth
    IN  [e |-> [e EXCEPT !.vx = vx, !.x = x, !.y = y,
                         !.dead = e.dead \/ anodeHit \/ cathode \/ glass \/ outside],
         hit |-> anodeHit]

\* Variant for C10: the hit is pushed twice.
recordHit_twice(s, id, timestamp) ==
    [s EXCEPT !.hitHistory = Append(Append(@, timestamp), timestamp),
              !.hitLog = Append(Append(@, [id |-> id, t |-> timestamp]),
                                [id |-> id, t |-> timestamp])]

recordHit(s, id, timestamp) ==
    [s EXCEPT !.hitHistory = Append(@, timestamp),
              !.hitLog = Append(@, [id |-> id, t |-> timestamp])]

RECURSIVE RecordHits(_, _, _)
RecordHits(s, moved, timestamp) ==
    IF moved = <<>> THEN s
    ELSE RecordHits(IF Head(moved).hit
                    THEN recordHit(s, Head(moved).e.id, timestamp) ELSE s,
                    Tail(moved), timestamp)

updateElectrons(s, timestamp) ==
    LET moved == [i \in DOMAIN s.electrons |-> MoveElectron(s, s.electrons[i])]
        s1 == RecordHits(s, moved, timestamp)
        after == [i \in DOMAIN moved |-> moved[i].e]
    IN  [s1 EXCEPT !.electrons = SelectSeq(after, LAMBDA e : ~e.dead)]

\* Variant for C1: the history is never pruned.
PruneHits_keepAll(hitHistory, timestamp) == hitHistory

\* Variant for C6: a hit exactly windowSize old is kept.
PruneHits_edge(hitHistory, timestamp) ==
    LET windowSize == 500
    IN  SelectSeq(hitHistory, LAMBDA t : (timestamp - t) <= windowSize)

PruneHits(hitHistory, timestamp) ==
    LET windowSize == 500
    IN  SelectSeq(hitHistory, LAMBDA t : (timestamp - t) < windowSize)

\* Variant for C5: the hits are counted before the history is pruned.
calculateRealCurrent_stale(s, timestamp) ==
    LET windowSize == 500
        hist == PruneHits(s.hitHistory, timestamp)
        count == Len(s.hitHistory)
        scale == 2
        current == count * scale * (1000 \div windowSize)
        a == s.ammeterCurrent
    IN  [s EXCEPT !.hitHistory = hist,
                  !.current = current,
                  !.ammeterCurrent = [m |-> a.m * 9 + current * Pow10(a.e),
                                      e |-> a.e + 1]]

calculateRealCurrent(s, timestamp) ==
    LET windowSize == 500
        hist == PruneHits(s.hitHistory, timestamp)
        count == Len(hist)
        scale == 2                                   \* 0.2, in tenths
        current == count * scale * (1000 \div windowSize)
        a == s.ammeterCurrent
    IN  [s EXCEPT !.hitHistory = hist,
                  !.current = current,
                  !.ammeterCurrent = [m |-> a.m * 9 + current * Pow10(a.e),
                                      e |-> a.e + 1]]

\* drawElectrons: one arc per electron of the pool; nothing of the pool is
\* waiting to be advanced when it runs.
drawElectrons(s) ==
    [i \in DOMAIN s.electrons |->
        [id |-> s.electrons[i].id, pending |-> 0,
         x |-> s.electrons[i].x, y |-> s.electrons[i].y]]

\* outcomes of the Math.random() of the probabilistic extra spawn, 1/100
ExtraDraws == {0, 17, 99}

\* Variant for C14: the extra spawn is made twice.
SpawnAttempts_twoExtra(intensity) ==
    {(intensity * 3) \div 100 + 2 * e : e \in {0, 1}}

\* How many spawnRandomElectron calls the spawning block of loop can make.
SpawnAttempts(intensity) ==
    IF intensity > 0
    THEN LET spawnRate == intensity * 3              \* intensity * 0.03, 1/100
             count == spawnRate \div 100
             remainder == spawnRate % 100
         IN  {count + (IF u < remainder THEN 1 ELSE 0) : u \in ExtraDraws}
    ELSE {0}

RECURSIVE SpawnAll(_, _)
SpawnAll(s, ds) ==
    IF ds = <<>> THEN s
    ELSE SpawnAll(spawnRandomElectron(s, Head(ds)), Tail(ds))

\* Variant for C7: the current is computed before the pool is advanced.
LoopBody_aggregateFirst(s, timestamp, ds) ==
    LET s0 == [s EXCEPT !.time = @ + 1, !.attempts = 0]
        s1 == calculateRealCurrent(s0, timestamp)
        s2 == updateElectrons(s1, timestamp)
    IN  SpawnAll(s2, ds)

\* The order of the calls in loop(timestamp).
LoopBody(s, timestamp, ds) ==
    LET s0 == [s EXCEPT !.time = @ + 1, !.attempts = 0]
        s1 == updateElectrons(s0, timestamp)
        s2 == SpawnAll(s1, ds)
    IN  calculateRealCurrent(s2, timestamp)

PeLoop ==
    /\ page = "photoelectric"
    /\ pe.time < MaxTicks
    /\ \E dt \in FrameGaps, n \in SpawnAttempts(pe.intensity) :
         \E ds \in [1..n -> Draws] :
              \E timestamp \in {now + dt} :
                \E s \in {LoopBody(pe, timestamp, ds)} :
                  /\ Len(s.electrons) <= MaxElectrons
                  /\ pe' = s
                  /\ now' = timestamp
                  /\ drawn' = drawElectrons(s)
    /\ UNCHANGED <<page, events, mk, fh, co, sn>>

PeWavelength ==
    /\ page = "photoelectric"
    /\ \E v \in LambdaInputs : pe' = [pe EXCEPT !.lambda = v]
    /\ Control
    /\ UNCHANGED <<page, now, drawn, mk, fh, co, sn>>

PeIntensity ==
    /\ page = "photoelectric"
    /\ \E v \in IntensityInputs : pe' = [pe EXCEPT !.intensity = v]
    /\ Control
    /\ UNCHANGED <<page, now, drawn, mk, fh, co, sn>>

PeVoltage ==
    /\ page = "photoelectric"
    /\ \E v \in VoltageInputs : pe' = [pe EXCEPT !.voltage = v]
    /\ Control
    /\ UNCHANGED <<page, now, drawn, mk, fh, co, sn>>

PeMetal ==
    /\ page = "photoelectric"
    /\ \E name \in MetalInputs :
         pe' = [pe EXCEPT !.metalName = name,
                          !.workFunction = METALS[name],
                          !.electrons = <<>>]
    /\ Control
    /\ UNCHANGED <<page, now, drawn, mk, fh, co, sn>>

PeZeroVoltage ==
    /\ page = "photoelectric"
    /\ pe' = [pe EXCEPT !.voltage = 0]
    /\ Control
    /\ UNCHANGED <<page, now, drawn, mk, fh, co, sn>>

NextPe ==
    \/ PeLoop
    \/ PeWavelength
    \/ PeIntensity
    \/ PeVoltage
    \/ PeMetal
    \/ PeZeroVoltage

----------------------------------------------------------------------------
(* Doubles.  A double is [k, v]: k = "fin" with the fixed-point value v,   *)
(* or one of the three non-finite values.                                  *)

Num(v) == [k |-> "fin", v |-> v]
NaN == [k |-> "nan", v |-> 0]
PosInf == [k |-> "inf", v |-> 1]
NegInf == [k |-> "inf", v |-> -1]

IsFinite(a) == a.k = "fin"
IsNaN(a) == a.k = "nan"

\* sign of a double that is not NaN
Sgn(a) == IF a.v > 0 THEN 1 ELSE IF a.v < 0 THEN -1 ELSE 0

\* integer division truncating toward zero (d > 0)
TDiv(n, d) == IF n < 0 THEN -((-n) \div d) ELSE n \div d

FNeg(a) == IF a.k = "fin" THEN Num(-a.v)
           ELSE IF a.k = "inf" THEN [a EXCEPT !.v = -a.v] ELSE NaN

FAdd(a, b) ==
    IF IsNaN(a) \/ IsNaN(b) THEN NaN
    ELSE IF a.k = "inf" /\ b.k = "inf" THEN (IF a.v = b.v THEN a ELSE NaN)
    ELSE IF a.k = "inf" THEN a
    ELSE IF b.k = "inf" THEN b
    ELSE Num(a.v + b.v)

FSub(a, b) == FAdd(a, FNeg(b))

\* a * b, both fixed-point with `scale` units per one
FMul(a, b, scale) ==
    IF IsNaN(a) \/ IsNaN(b) THEN NaN
    ELSE IF a.k = "inf" \/ b.k = "inf"
         THEN (IF Sgn(a) * Sgn(b) = 0 THEN NaN
               ELSE IF Sgn(a) * Sgn(b) > 0 THEN PosInf ELSE NegInf)
    ELSE Num(TDiv(a.v * b.v, scale))

\* a / b for finite a and b; the quotient has `scale` units per one
FDiv(a, b, scale) ==
    IF b.v = 0
    THEN (IF a.v = 0 THEN NaN ELSE IF a.v > 0 THEN PosInf ELSE NegInf)
    ELSE IF b.v > 0 THEN Num(TDiv(a.v * scale, b.v))
    ELSE Num(TDiv(-(a.v * scale), -b.v))

\* Math.sqrt of a double with 100 units per one
FSqrt(a) ==
    IF IsNaN(a) THEN NaN
    ELSE IF a.k = "inf" THEN (IF a.v > 0 THEN PosInf ELSE NaN)
    ELSE IF a.v < 0 THEN NaN
    ELSE Num(ISqrt(a.v * 100))

\* a < b and a <= b: false as soon as one side is NaN
FLt(a, b) ==
    IF IsNaN(a) \/ IsNaN(b) THEN FALSE
    ELSE IF a.k = "inf" THEN a.v < 0 /\ ~(b.k = "inf" /\ b.v < 0)
    ELSE IF b.k = "inf" THEN b.v > 0
    ELSE a.v < b.v

FLe(a, b) ==
    IF IsNaN(a) \/ IsNaN(b) THEN FALSE
    ELSE FLt(a, b) \/ a = b

----------------------------------------------------------------------------
(* Franck-Hertz page (src/frank_hertz.js)                                   *)
(*                                                                         *)
(* Units: x and vx in 1/100 px, energy in 1/100 eV, voltages in 1/10 V,    *)
(* temperature in degrees, canvas width in px, dipStrength in 1/1000.      *)

EXCITATION_ENERGY == 490
CONTACT_POTENTIAL == 20


\* tubeCanvas.offsetWidth as the layout can make it
TubeWidths == {100, 102}

\* the values the three sliders deliver
AccInputs == {-400, 400}
RetInputs == {300}
TempInputs == {120}

\* Math.exp(-(dist * dist) / (20 * 20)) in thousandths
ExpGauss(dist) ==
    IF dist = 0 THEN 1000
    ELSE IF dist <= 10 THEN 779
    ELSE IF dist <= 20 THEN 368
    ELSE IF dist <= 30 THEN 105
    ELSE 18

\* Math.exp(-(t - 200) / 20) * 0.5 in thousandths, t > 200; exact where
\* t - 200 is a multiple of 20
HotTransmission(t) ==
    IF t - 200 <= 20 THEN 184
    ELSE IF t - 200 <= 40 THEN 68
    ELSE IF t - 200 <= 60 THEN 25
    ELSE 9

getTemperatureFactor(t) ==
    IF t < 140 THEN [dipStrength |-> 0, transmission |-> 1000]
    ELSE IF t >= 140 /\ t <= 200
    THEN [dipStrength |-> ExpGauss(Abs(t - 180)), transmission |-> 800]
    ELSE [dipStrength |-> 500, transmission |-> HotTransmission(t)]

\* Math.exp(-(diff * diff) / 1.5) in millionths for |diff| = 0, 0.1, ...,
\* 4.5 V; below one millionth beyond that
DropTable ==
    <<1000000, 993356, 973686, 941765, 898825, 846482, 786628, 721324,
      652681, 582748, 513417, 446343, 382893, 324112, 270721, 223130,
      181470, 145633, 115325, 90115, 69483, 52866, 39690, 29403,
      21494, 15504, 11035, 7750, 5371, 3673, 2479, 1651,
      1084, 703, 450, 284, 177, 109, 66, 39,
      23, 14, 8, 4, 2, 1>>

ExpDrop(diff) ==
    IF Abs(diff) < Len(DropTable) THEN DropTable[Abs(diff) + 1] ELSE 0

\* the loop of calculateCurrent over the collision orders k = 1 .. 14: the
\* sum of the drop windows, left at the first k with v < dropPos - 3; v and
\* dropPos = k * 4.9 + 2.0 in tenths of a volt
RECURSIVE Modulation(_, _)
Modulation(v, k) ==
    LET dropPos == (k * EXCITATION_ENERGY) \div 10 + CONTACT_POTENTIAL
    IN  IF k >= 15 \/ v < dropPos - 30 THEN 0
        ELSE ExpDrop(v - dropPos) + Modulation(v, k + 1)

\* calculateCurrent(v), v in tenths of a volt; the current in thousandths
calculateCurrent(s, v) ==
    IF v < 0 THEN 0
    ELSE LET f == getTemperatureFactor(s.temperature)
             root == ISqrt(v * 100000)             \* 1000 * sqrt(v)
             pow15 == (v * root) \div 10           \* 1000 * v^1.5
             baseCurrent == (pow15 * 2 * f.transmission) \div 10000
             modulation == Modulation(v, 1)
             loss == (8 * f.dipStrength * (modulation \div 10)) \div 1000
             dipFactor == IF 1000000 - loss > 100000 THEN 1000000 - loss
                          ELSE 100000
         IN  (baseCurrent * (dipFactor \div 100)) \div 10000

\* new Electron(): vx0 is 0.5 + Math.random() * 0.5
NewElectron(id, vx0) ==
    [id |-> id, x |-> Num(4000), y |-> 50, vx |-> Num(vx0),
     energy |-> Num(0), active |-> TRUE]

Vx0Draws == {50}

FhInit == [vAcc |-> 0, vRet |-> 15, temperature |-> 180,
           electrons |-> <<>>, collisions |-> <<>>,
           autoScanning |-> FALSE, accDisabled |-> FALSE, history |-> <<>>,
           current |-> 0,
           frames |-> 0,       \* animation frames so far
           tested |-> {},      \* scratch: electrons whose random test came out true
           collided |-> <<>>,  \* the collisions of the last frame: [id, x, energy, dip]
           sampled |-> <<>>,   \* the Math.random() calls of the collision checks of
                               \* the last frame: [id, hit]
           nextId |-> 1]       \* identity of the next Electron object

\* Variant for C16: an electron at the grid is still accelerated.
BeforeGrid_inclusive(e, gridX) == FLe(e.x, Num(gridX * 100))

\* this.x < gridX
BeforeGrid(e, gridX) == FLt(e.x, Num(gridX * 100))

\* Variant for C11: the collision check does not look at the energy.
Eligible_anyEnergy(energy, dipStrength) == dipStrength > 10

\* this.energy >= EXCITATION_ENERGY && dipStrength > 0.01
Eligible(energy, dipStrength) ==
    FLe(Num(EXCITATION_ENERGY), energy) /\ dipStrength > 10

\* Variant for C17: the sample is drawn before the energy is looked at.
Sample_always(e, eligible, hit) == <<[id |-> e.id, hit |-> hit]>>

\* The Math.random() of the collision check is called inside the test of
\* energy and dipStrength; hit is what the comparison with 0.2 * dipStrength
\* gives.
Sample(e, eligible, hit) ==
    IF eligible THEN <<[id |-> e.id, hit |-> hit]>> ELSE <<>>

\* Electron.update(); hit says what the Math.random() < 0.2 * dipStrength
\* test answers if it is reached.  The result carries the electron, the
\* glow pushed to state.collisions, if any, and whether the test was reached
\* and came out true.
ElectronUpdate(e, s, width, hit) ==
    IF ~e.active THEN [e |-> e, glow |-> <<>>, tested |-> FALSE, coll |-> <<>>,
                           draws |-> <<>>]
    ELSE
    LET cathodeX == 40
        gridX == width - 60
        anodeX == width - 20
        dipStrength == getTemperatureFactor(s.temperature).dipStrength
    IN  IF BeforeGrid(e, gridX)
        THEN LET dist == gridX - cathodeX
                 E_field == FDiv(Num(s.vAcc * 100), Num(dist * 10), 1)
                 energy1 == FAdd(e.energy, FMul(E_field, e.vx, 100))
                 x1 == FAdd(e.x, e.vx)
                 vx1 == FAdd(Num(100), FMul(FSqrt(energy1), Num(50), 100))
                 eligible == Eligible(energy1, dipStrength)
                 collide == eligible /\ hit /\ 200 * dipStrength > 0
             IN  IF collide
                 THEN [e |-> [e EXCEPT !.energy = FSub(energy1, Num(EXCITATION_ENERGY)),
                                       !.x = x1, !.vx = Num(50)],
                       glow |-> <<100>>, tested |-> TRUE,
                       coll |-> <<[id |-> e.id, x |-> e.x, energy |-> energy1,
                                   dip |-> dipStrength]>>,
                       draws |-> Sample(e, eligible, hit)]
                 ELSE [e |-> [e EXCEPT !.energy = energy1, !.x = x1, !.vx = vx1],
                       glow |-> <<>>, tested |-> eligible /\ hit, coll |-> <<>>,
                       draws |-> Sample(e, eligible, hit)]
        ELSE IF FLt(e.x, Num(anodeX * 100))
        THEN LET dist == anodeX - gridX
                 E_field == FDiv(Num(s.vRet * 100), Num(dist * 10), 1)
                 energy1 == FSub(e.energy, FMul(E_field, e.vx, 100))
                 x1 == FAdd(e.x, e.vx)
             IN  [e |-> [e EXCEPT !.energy = energy1, !.x = x1,
                                  !.active = ~FLe(energy1, Num(0))],
                  glow |-> <<>>, tested |-> FALSE, coll |-> <<>>, draws |-> <<>>]
        ELSE [e |-> [e EXCEPT !.active = FALSE], glow |-> <<>>, tested |-> FALSE,
              coll |-> <<>>, draws |-> <<>>]

\* Variant for C26: the slider stays disabled.
stopAutoScan_keepDisabled(s) == [s EXCEPT !.autoScanning = FALSE]

stopAutoScan(s) == [s EXCEPT !.autoScanning = FALSE, !.accDisabled = FALSE]

startAutoScan(s) ==
    [s EXCEPT !.autoScanning = TRUE, !.accDisabled = TRUE,
              !.history = <<>>, !.vAcc = 0]

\* The electron loop of animate: from the last index down to 0, update the
\* electron, then splice it out if it is inactive or beyond the canvas.
\* hits[i] is the outcome of the random test of electron i.  The result is
\* the pool that remains and the glows pushed, in the order of the pushes.
\* Variant for C30: the splice takes the first element of the array.
Splice_first(es, i) == Tail(es)

\* array.splice(i, 1), for the 0-based index i - 1
Splice(es, i) == SubSeq(es, 1, i - 1) \o SubSeq(es, i + 1, Len(es))

\* Variant for C22: the loop never splices an electron out.
Gone_never(e, width) == FALSE

\* !electrons[i].active || electrons[i].x > tubeCanvas.width
Gone(e, width) == ~e.active \/ FLt(Num(width * 100), e.x)

RECURSIVE UpdateFrom(_, _, _, _, _)
UpdateFrom(i, es, s, width, hits) ==
    IF i = 0 THEN [electrons |-> es, glows |-> <<>>, tested |-> {}, coll |-> <<>>,
                   draws |-> <<>>]
    ELSE CHOOSE r \in
           {LET gone == Gone(u.e, width)
                es1 == IF gone THEN Splice(es, i) ELSE [es EXCEPT ![i] = u.e]
                rest == UpdateFrom(i - 1, es1, s, width, hits)
            IN  [electrons |-> rest.electrons, glows |-> u.glow \o rest.glows,
                 tested |-> rest.tested \cup (IF u.tested THEN {i} ELSE {}),
                 coll |-> u.coll \o rest.coll,
                 draws |-> u.draws \o rest.draws]
              : u \in {ElectronUpdate(es[i], s, width, hits[i])}} : TRUE

\* The glow loop of animate: life -= 0.05, spliced out at life <= 0.
FadeGlows(cs) ==
    SelectSeq([i \in DOMAIN cs |-> cs[i] - 5], LAMBDA life : life > 0)

\* drawTube: Electron.draw for every electron of the pool; draw returns at
\* once for an inactive electron.
drawTube(s) ==
    LET act == SelectSeq(s.electrons, LAMBDA e : e.active)
    IN  [i \in DOMAIN act |->
            [id |-> act[i].id, pending |-> 0, x |-> act[i].x, y |-> act[i].y]]

\* Variant for C18: the scan step is taken whether or not a scan is on.
AutoScanStep_ungated(s) == [s EXCEPT !.vAcc = @ + 1]

\* the auto-scan block at the head of animate
AutoScanStep(s) ==
    IF s.autoScanning
    THEN LET t == [s EXCEPT !.vAcc = @ + 1]
         IN  IF t.vAcc >= 800 THEN stopAutoScan(t) ELSE t
    ELSE s

\* animate(); spawn says whether Math.random() < emissionRate, vx0 is the
\* speed the new electron draws, hits the outcomes of the collision tests.
FhAnimate(s, width, spawn, vx0, hits) ==
    LET s1 == AutoScanStep(s)
        s2 == IF s1.history = <<>> \/ Abs(s1.vAcc - s1.history[Len(s1.history)]) > 2
              THEN [s1 EXCEPT !.history = Append(@, s1.vAcc)]
              ELSE s1
        s3 == IF spawn
              THEN [s2 EXCEPT !.electrons = Append(@, NewElectron(s2.nextId, vx0)),
                              !.nextId = @ + 1]
              ELSE s2
        u == UpdateFrom(Len(s3.electrons), s3.electrons, s3, width, hits)
    IN  [s3 EXCEPT !.current = calculateCurrent(s1, s1.vAcc),
                   !.electrons = u.electrons,
                   !.collisions = FadeGlows(@ \o u.glows),
                   !.tested = u.tested,
                   !.collided = u.coll,
                   !.sampled = u.draws,
                   !.frames = @ + 1]

\* Math.max(0, (temperature - 100) / 500) > 0
CanEmit(s) == s.temperature - 100 > 0

FhFrame ==
    /\ page = "frankhertz"
    /\ fh.s.frames < MaxTicks
    /\ \E spawn \in BOOLEAN, vx0 \in Vx0Draws :
         /\ spawn => CanEmit(fh.s) /\ fh.s.nextId <= MaxElectrons
         /\ LET n == Len(fh.s.electrons) + (IF spawn THEN 1 ELSE 0)
            IN  \E hits \in [1..n -> BOOLEAN] :
                  \E t \in {FhAnimate(fh.s, fh.width, spawn, vx0, hits)} :
                      /\ t.tested = {i \in 1..n : hits[i]}
                      /\ fh' = [fh EXCEPT !.s = [t EXCEPT !.tested = {}]]
                      /\ drawn' = drawTube(t)
    /\ UNCHANGED <<page, now, events, pe, mk, co, sn>>

\* updateStateFromDOM after the user moved one slider
FhAccSlider ==
    /\ page = "frankhertz"
    /\ ~fh.s.accDisabled
    /\ \E v \in AccInputs :
         fh' = [fh EXCEPT !.s = LET t == [fh.s EXCEPT !.vAcc = v]
                                IN  IF t.autoScanning THEN stopAutoScan(t) ELSE t]
    /\ Control
    /\ UNCHANGED <<page, now, drawn, pe, mk, co, sn>>

FhRetSlider ==
    /\ page = "frankhertz"
    /\ \E v \in RetInputs : fh' = [fh EXCEPT !.s.vRet = v]
    /\ Control
    /\ UNCHANGED <<page, now, drawn, pe, mk, co, sn>>

FhTempSlider ==
    /\ page = "frankhertz"
    /\ \E v \in TempInputs : fh' = [fh EXCEPT !.s.temperature = v]
    /\ Control
    /\ UNCHANGED <<page, now, drawn, pe, mk, co, sn>>

FhReset ==
    /\ page = "frankhertz"
    /\ fh' = [fh EXCEPT !.s = stopAutoScan([fh.s EXCEPT !.vAcc = 0,
                                                       !.history = <<>>,
                                                       !.electrons = <<>>])]
    /\ Control
    /\ UNCHANGED <<page, now, drawn, pe, mk, co, sn>>

FhAutoScanBtn ==
    /\ page = "frankhertz"
    /\ fh' = [fh EXCEPT !.s = IF fh.s.autoScanning THEN stopAutoScan(fh.s)
                              ELSE startAutoScan(fh.s)]
    /\ Control
    /\ UNCHANGED <<page, now, drawn, pe, mk, co, sn>>

NextFh ==
    \/ FhFrame
    \/ FhAccSlider
    \/ FhRetSlider
    \/ FhTempSlider
    \/ FhReset
    \/ FhAutoScanBtn

----------------------------------------------------------------------------
(* Millikan page (src/millikan.js, first script)                            *)
(*                                                                         *)
(* Units: radius in 1/10 um, positions in 1/1000 px, velocities in         *)
(* 1/1000 px per s (1 px = 1e-5 m, so 1e-8 m/s), forces in 1e-22 N,        *)
(* drag coefficient in 1e-14 kg/s, volume in 1e-22 m^3, voltage in V,      *)
(* charge in elementary charges, timestamps in ms.                         *)

CONSTANTS_ == [g |-> 98,               \* 9.80, in 1/10
               rho_oil |-> 875,
               rho_air |-> 1225,       \* 1.225, in 1/1000
               viscosity |-> 181,      \* 1.81e-5, in 1e-7
               e |-> 1602,             \* 1.602e-19, in 1e-22
               plateDistance |-> 5,    \* 0.005, in 1/1000
               scale |-> 100000]

\* Math.PI in 1/10000
PI4 == 31416

\* canvas.width and canvas.height of the simulation canvas, in px
MkWidth == 800
MkHeight == 500

\* gaps between the timestamps of consecutive frames (ms); a frame after
\* the tab was in the background arrives long after the one before
MkFrameGaps == {100000}

\* new OilDrop(): outcomes of the Math.random() calls of the constructor
\* (radius, position as shares of the canvas in percent, initial vx, sign
\* of the charge)
DropDraws == [radius : {5}, px : {50}, py : {0}, vx : {0}, n : {-1, 1}]

\* outcomes of the two Math.random() - 0.5 of one update, in percent
JitterDraws == {[x |-> -50, y |-> 49]}

\* what the voltage text box can hold when its handler runs
TextInputs == {<<"-", "5", "0", "0", "0">>, <<"a", "b", "c">>}

\* what the voltage slider can hold when its handler runs
SliderInputs == {<<"2", "0", "0", "0">>}

\* arguments of a call setVoltage(v)
SetVoltageInputs == {5000}

DigitVal(c) ==
    CASE c = "0" -> 0 [] c = "1" -> 1 [] c = "2" -> 2 [] c = "3" -> 3
      [] c = "4" -> 4 [] c = "5" -> 5 [] c = "6" -> 6 [] c = "7" -> 7
      [] c = "8" -> 8 [] c = "9" -> 9 [] OTHER -> -1

RECURSIVE ParseDigits(_, _, _)
ParseDigits(cs, acc, seen) ==
    IF cs = <<>> \/ DigitVal(Head(cs)) < 0
    THEN (IF seen THEN Num(acc) ELSE NaN)
    ELSE ParseDigits(Tail(cs), acc * 10 + DigitVal(Head(cs)), TRUE)

RECURSIVE parseInt(_)
parseInt(cs) ==
    IF cs = <<>> THEN NaN
    ELSE IF Head(cs) = " " THEN parseInt(Tail(cs))
    ELSE IF Head(cs) = "-" THEN FNeg(ParseDigits(Tail(cs), 0, FALSE))
    ELSE IF Head(cs) = "+" THEN ParseDigits(Tail(cs), 0, FALSE)
    ELSE ParseDigits(cs, 0, FALSE)

MkInit == [drops |-> <<>>, selectedDrop |-> 0, voltage |-> 0, lastTime |-> 0,
           zoom |-> 1, zoomBtn |-> "initial",
           timers |-> 5,       \* spawnDrop timeouts of sprayDrops not yet run
           frames |-> 0,       \* animation frames so far
           deselected |-> {},  \* drops the cull found selected
           stopwatch |-> [running |-> FALSE, startTime |-> 0, elapsedTime |-> 0,
                          display |-> 0],   \* display: the ms handed to formatTime
           date |-> 0,         \* Date.now(), ms since the page was loaded
           ran |-> 0,          \* ms the stopwatch has been running since the last reset
           nextId |-> 1]       \* identity of the next OilDrop object

NewDrop(id, d) ==
    [id |-> id, radius |-> d.radius,
     x |-> (d.px * 8 + 100) * MkWidth,                  \* (r * 0.8 + 0.1) * width
     y |-> (d.py * 2 * MkHeight),                       \* r * 0.2 * height
     vx |-> d.vx, vy |-> 0, q |-> d.n]

\* OilDrop.update(dt), dt in ms and a whole number of tenths of a second;
\* j is the pair of jitter draws
DropUpdate(drop, voltage, dt, j) ==
    LET volume == (4 * PI4 * drop.radius * drop.radius * drop.radius) \div 3000
        mass == volume * CONSTANTS_.rho_oil
        Fg == (mass * CONSTANTS_.g) \div 10
        Fb == TDiv(volume * CONSTANTS_.rho_air * CONSTANTS_.g, 10000)
        E == TDiv(voltage * 1000, CONSTANTS_.plateDistance)
        Fe == drop.q * CONSTANTS_.e * E
        F_driving_y == Fg - Fb + Fe
        F_driving_x == 0
        drag_coeff == (6 * PI4 * CONSTANTS_.viscosity * drop.radius) \div 10000
        jitterMagnitude == 2000 \div drop.radius      \* (1e-6 / r) * 2e-6 m/s
        vy == TDiv(F_driving_y, drag_coeff) + TDiv(j.y * jitterMagnitude, 100)
        vx == TDiv(F_driving_x, drag_coeff) + TDiv(j.x * jitterMagnitude, 100)
    IN  [drop EXCEPT !.vx = vx, !.vy = vy,
                     !.x = @ + TDiv(vx * (dt \div 100), 10),
                     !.y = @ + TDiv(vy * (dt \div 100), 10)]

\* Variant for C9: the test against the top edge is missing.
isOffScreen_noTop(drop) ==
    LET margin == 50000
    IN  \/ drop.x < -margin
        \/ drop.x > MkWidth * 1000 + margin
        \/ drop.y > MkHeight * 1000 + margin

isOffScreen(drop) ==
    LET margin == 50000
    IN  \/ drop.x < -margin
        \/ drop.x > MkWidth * 1000 + margin
        \/ drop.y < -margin
        \/ drop.y > MkHeight * 1000 + margin

toggleZoom(m) ==
    IF m.selectedDrop = 0 THEN m                     \* alert, return
    ELSE IF m.zoom = 1 THEN [m EXCEPT !.zoom = 4, !.zoomBtn = "on"]
    ELSE [m EXCEPT !.zoom = 1, !.zoomBtn = "off"]

\* the second declaration of updateSelectionUI, which is the one in force
updateSelectionUI(m) ==
    IF m.selectedDrop # 0
    THEN [m EXCEPT !.zoomBtn = IF m.zoom > 1 THEN "on" ELSE "off"]
    ELSE LET m1 == IF m.zoom > 1 THEN toggleZoom(m) ELSE m
         IN  [m1 EXCEPT !.zoomBtn = "locked"]

\* Variant for C25: the cull leaves the selection alone.
Deselect_skip(m, drop) == m

\* if (selectedDrop === drop) { selectedDrop = null; updateSelectionUI(); }
Deselect(m, drop) ==
    IF m.selectedDrop = drop.id
    THEN updateSelectionUI([m EXCEPT !.selectedDrop = 0,
                                     !.deselected = @ \cup {drop.id}])
    ELSE m

\* What one pass of the drop loop does with the drop at index i: update,
\* draw, then cull.  The pass appends what it drew to `out`.
RECURSIVE DropLoop(_, _, _, _, _)
DropLoop(i, m, dt, j, out) ==
    IF i = 0 THEN [m |-> m, drawn |-> out]
    ELSE LET drop == DropUpdate(m.drops[i], m.voltage, dt, j)
             cull == isOffScreen(drop) /\ m.zoom = 1
             shot == [id |-> drop.id, pending |-> i - 1, x |-> drop.x, y |-> drop.y]
             m1 == [m EXCEPT !.drops[i] = drop]
             m2 == IF cull THEN Deselect(m1, drop) ELSE m1
             m3 == IF cull THEN [m2 EXCEPT !.drops = Splice(@, i)] ELSE m2
         IN  DropLoop(i - 1, m3, dt, j, Append(out, shot))

\* loop(timestamp) of the Millikan page
MkLoopBody(m, timestamp, j) ==
    LET lastTime0 == IF m.lastTime = 0 THEN timestamp ELSE m.lastTime
        dt == timestamp - lastTime0
        m1 == [m EXCEPT !.lastTime = timestamp, !.frames = @ + 1]
        m2 == IF m1.zoom > 1 /\ m1.selectedDrop # 0 THEN m1
              ELSE [m1 EXCEPT !.zoom = 1]
    IN  DropLoop(Len(m2.drops), m2, dt, j, <<>>)

MkLoop ==
    /\ page = "millikan"
    /\ mk.frames < MaxTicks
    /\ \E gap \in MkFrameGaps, j \in JitterDraws :
         \E r \in {MkLoopBody(mk, now + gap, j)} :
             /\ mk' = r.m
             /\ drawn' = r.drawn
             /\ now' = now + gap
    /\ UNCHANGED <<page, events, pe, fh, co, sn>>

\* a timeout set by sprayDrops expires: spawnDrop()
MkSpawnDrop ==
    /\ page = "millikan"
    /\ mk.timers > 0
    /\ mk.nextId <= MaxElectrons
    /\ \E d \in DropDraws :
         mk' = [mk EXCEPT !.drops = Append(@, NewDrop(mk.nextId, d)),
                          !.nextId = @ + 1, !.timers = @ - 1]
    /\ UNCHANGED <<page, now, drawn, events, pe, fh, co, sn>>

MkSprayBtn ==
    /\ page = "millikan"
    /\ mk' = [mk EXCEPT !.timers = @ + 5]
    /\ Control
    /\ UNCHANGED <<page, now, drawn, pe, fh, co, sn>>

\* the distance test of the mousedown handler: hypot(dx, dy) < minDist
CloserThan(dx, dy, minDist2) ==
    /\ Abs(dx) <= 20000
    /\ Abs(dy) <= 20000
    /\ dx * dx + dy * dy < minDist2

RECURSIVE Nearest(_, _, _, _, _)
Nearest(drops, mx, my, minDist2, clicked) ==
    IF drops = <<>> THEN clicked
    ELSE LET d == Head(drops)
             dx == d.x - mx
             dy == d.y - my
         IN  IF CloserThan(dx, dy, minDist2)
             THEN Nearest(Tail(drops), mx, my, dx * dx + dy * dy, d.id)
             ELSE Nearest(Tail(drops), mx, my, minDist2, clicked)

\* mousedown on the canvas at (mx, my)
MkMouseDown ==
    /\ page = "millikan"
    /\ \E pt \in {[x |-> d.x, y |-> d.y] : d \in Range(mk.drops)} \cup {[x |-> 0, y |-> 400000]} :
         /\ pt.x >= 0 /\ pt.x <= MkWidth * 1000
         /\ pt.y >= 0 /\ pt.y <= MkHeight * 1000
         /\ mk' = updateSelectionUI(
                     [mk EXCEPT !.selectedDrop =
                          Nearest(mk.drops, pt.x, pt.y, 20000 * 20000, 0)])
    /\ Control
    /\ UNCHANGED <<page, now, drawn, pe, fh, co, sn>>

MkZoomBtn ==
    /\ page = "millikan"
    /\ mk' = toggleZoom(mk)
    /\ Control
    /\ UNCHANGED <<page, now, drawn, pe, fh, co, sn>>

setVoltage(m, v) == [m EXCEPT !.voltage = v]

\* a range input always holds a number
updateVoltageFromSlider(m, text) ==
    LET val == parseInt(text)
    IN  [m EXCEPT !.voltage = val.v]

updateVoltageFromInput(m, text) ==
    LET val0 == parseInt(text)
        val1 == IF IsNaN(val0) THEN 0 ELSE val0.v
        val2 == IF val1 > 2000 THEN 2000 ELSE val1
        val3 == IF val2 < -2000 THEN -2000 ELSE val2
    IN  [m EXCEPT !.voltage = val3]

MkSetVoltage ==
    /\ page = "millikan"
    /\ \E v \in SetVoltageInputs : mk' = setVoltage(mk, v)
    /\ Control
    /\ UNCHANGED <<page, now, drawn, pe, fh, co, sn>>

MkVoltageSlider ==
    /\ page = "millikan"
    /\ \E text \in SliderInputs : mk' = updateVoltageFromSlider(mk, text)
    /\ Control
    /\ UNCHANGED <<page, now, drawn, pe, fh, co, sn>>

MkVoltageInput ==
    /\ page = "millikan"
    /\ \E text \in TextInputs : mk' = updateVoltageFromInput(mk, text)
    /\ Control
    /\ UNCHANGED <<page, now, drawn, pe, fh, co, sn>>

NextMk ==
    \/ MkLoop
    \/ MkSpawnDrop
    \/ MkSprayBtn
    \/ MkMouseDown
    \/ MkZoomBtn
    \/ MkSetVoltage
    \/ MkVoltageSlider
    \/ MkVoltageInput

----------------------------------------------------------------------------
(* Compton page (src/michelson_morley.js, second script)                    *)
(*                                                                         *)
(* Units: positions in 1/100 px, velocities in 1/100 px per frame,         *)
(* wavelengths in 1/100 pm, angles in whole degrees, sines in 1/10000.     *)

\* Math.sin of 0..90 degrees
SinTab == <<
    0, 175, 349, 523, 698, 872, 1045, 1219, 1392, 1564,
    1736, 1908, 2079, 2250, 2419, 2588, 2756, 2924, 3090, 3256,
    3420, 3584, 3746, 3907, 4067, 4226, 4384, 4540, 4695, 4848,
    5000, 5150, 5299, 5446, 5592, 5736, 5878, 6018, 6157, 6293,
    6428, 6561, 6691, 6820, 6947, 7071, 7193, 7314, 7431, 7547,
    7660, 7771, 7880, 7986, 8090, 8192, 8290, 8387, 8480, 8572,
    8660, 8746, 8829, 8910, 8988, 9063, 9135, 9205, 9272, 9336,
    9397, 9455, 9511, 9563, 9613, 9659, 9703, 9744, 9781, 9816,
    9848, 9877, 9903, 9925, 9945, 9962, 9976, 9986, 9994, 9998,
    10000>>

SinDeg(d) == IF d <= 90 THEN SinTab[d + 1] ELSE SinTab[180 - d + 1]
CosDeg(d) == IF d <= 90 THEN SinTab[90 - d + 1] ELSE -SinTab[d - 90 + 1]

\* multiplication by a sine or cosine, truncating toward zero
MulTrig(v, t) == TDiv(v * t, 10000)

LAMBDA_C == 243
CoHC == 1240

CoGEO == [centerX |-> 40000, centerY |-> 30000, sourceX |-> 5000]

\* canvas.width and canvas.height of the Compton canvas, in px
CoWidth == 800
CoHeight == 600

\* the values the two sliders deliver (pm in 1/100, degrees)
CoLambdaInputs == {7100, 65000}
CoThetaInputs == {180}

\* Math.tan(thetaRad / 2) in 1/10000, for 0 < theta < 180
TanHalf(theta) == (SinDeg(theta) * 10000) \div (10000 + CosDeg(theta))

\* Math.atan(1 / cotPhi) to the nearest degree below: the largest angle of
\* 0..90 whose cotangent is at least cotPhi (cotPhi > 0, in 1/10000)
RECURSIVE AtanInv(_, _)
AtanInv(cotPhi, d) ==
    IF d = 0 THEN 0
    ELSE IF CosDeg(d) * 10000 >= cotPhi * SinDeg(d) THEN d
    ELSE AtanInv(cotPhi, d - 1)

\* the recoil angle phi of updatePhysics, in degrees
RecoilAngle(lambda, theta) ==
    LET E_inc == (CoHC * 1000000) \div lambda          \* keV, in 1/10000
        alpha == E_inc \div 511
        tanTheta2 == TanHalf(theta)
    IN  IF theta = 0 THEN 0
        ELSE IF theta = 180 THEN 0
        ELSE AtanInv(((10000 + alpha) * tanTheta2) \div 10000, 90)

\* The numbers updatePhysics puts into the readouts, before toFixed:
\* wavelengths in 1/100 pm, energies in 1/10000 keV.
Readout(lambda, theta) ==
    LET shift == MulTrig(LAMBDA_C, 10000 - CosDeg(theta))
        lambdaPrime == lambda + shift
        E_inc == (CoHC * 1000000) \div lambda
        E_scat == (CoHC * 1000000) \div lambdaPrime
    IN  [shift |-> shift, lambdaPrime |-> lambdaPrime,
         E_inc |-> E_inc, E_scat |-> E_scat, K_e |-> E_inc - E_scat]

coUpdatePhysics(s) ==
    [s EXCEPT !.phi = RecoilAngle(s.lambda, s.theta),
              !.readout = Readout(s.lambda, s.theta)]

CoInit == coUpdatePhysics(
          [lambda |-> 7100, theta |-> 45, phi |-> 0,
           readout |-> Readout(7100, 45),
           photons |-> <<>>, electrons |-> <<>>, targetHit |-> FALSE,
           frames |-> 0,       \* animation frames so far
           fires |-> 0,        \* calls of firePhoton so far
           made |-> <<>>,      \* every particle object pushed so far: [id, type]
           scatterLog |-> <<>>,  \* the incident photon of every scatter() call
           nextId |-> 1])      \* identity of the next particle object

\* half the drawn length of a wave packet of wavelength lambda
PacketHalfLength(lambda) ==
    LET cycleLength == IF lambda \div 5 > 500 THEN lambda \div 5 ELSE 500
        numCycles == 8
    IN  (cycleLength * numCycles) \div 2

firePhoton(s) ==
    [s EXCEPT !.photons = Append(@, [id |-> s.nextId,
                                     x |-> CoGEO.sourceX + 4000, y |-> CoGEO.centerY,
                                     vx |-> 400, vy |-> 0, type |-> "incident",
                                     lambda |-> s.lambda, hasHit |-> FALSE,
                                     dead |-> FALSE]),
              !.nextId = @ + 1,
              !.fires = @ + 1,
              !.made = Append(@, [id |-> s.nextId, type |-> "incident"]),
              !.electrons = <<>>,
              !.targetHit = FALSE]

scatter(s, incidentPhoton) ==
    LET speed == 300
        shift == MulTrig(LAMBDA_C, 10000 - CosDeg(s.theta))
        newLambda == incidentPhoton.lambda + shift
        halfLength == PacketHalfLength(newLambda)
        dirX == CosDeg(s.theta)
        dirY == SinDeg(s.theta)
        eSpeed == 300
    IN  [s EXCEPT
          !.targetHit = TRUE,
          !.photons = Append(@, [id |-> s.nextId,
                                 x |-> CoGEO.centerX - MulTrig(halfLength, dirX),
                                 y |-> CoGEO.centerY - MulTrig(halfLength, dirY),
                                 vx |-> MulTrig(speed, dirX),
                                 vy |-> MulTrig(speed, dirY),
                                 type |-> "scattered", lambda |-> newLambda,
                                 hasHit |-> FALSE, dead |-> FALSE]),
          !.electrons = Append(@, [id |-> s.nextId + 1,
                                   x |-> CoGEO.centerX, y |-> CoGEO.centerY,
                                   vx |-> MulTrig(eSpeed, CosDeg(s.phi)),
                                   vy |-> -MulTrig(eSpeed, SinDeg(s.phi)),
                                   dead |-> FALSE]),
          !.made = @ \o <<[id |-> s.nextId, type |-> "scattered"],
                          [id |-> s.nextId + 1, type |-> "electron"]>>,
          !.scatterLog = Append(@, incidentPhoton.id),
          !.nextId = @ + 2]

\* Variant for C13: the front test does not look at hasHit.
FrontHits_again(p) ==
    p.type = "incident" /\ p.x + PacketHalfLength(p.lambda) >= CoGEO.centerX

\* p.type === 'incident' && !p.hasHit, and the front of the packet is at
\* the centre
FrontHits(p) ==
    /\ p.type = "incident" /\ ~p.hasHit
    /\ p.x + PacketHalfLength(p.lambda) >= CoGEO.centerX

\* the body of the photon forEach for the photon at index i
PhotonStep(s, i) ==
    LET p0 == s.photons[i]
        p1 == [p0 EXCEPT !.x = @ + p0.vx, !.y = @ + p0.vy]
        half == PacketHalfLength(p1.lambda)
        hits == FrontHits(p1)
        p2 == IF hits THEN [p1 EXCEPT !.hasHit = TRUE] ELSE p1
        s1 == IF hits THEN scatter([s EXCEPT !.photons[i] = p2], p2)
              ELSE [s EXCEPT !.photons[i] = p2]
        absorbed == p2.type = "incident" /\ p2.hasHit /\ p2.x - half > CoGEO.centerX
        margin == 10000
        out == \/ p2.x < -margin \/ p2.x > CoWidth * 100 + margin
               \/ p2.y < -margin \/ p2.y > CoHeight * 100 + margin
    IN  [s1 EXCEPT !.photons[i].dead = @ \/ absorbed \/ out]

\* forEach visits the photons that were in the array when it was called
RECURSIVE PhotonLoop(_, _, _)
PhotonLoop(s, i, n) ==
    IF i > n THEN s ELSE PhotonLoop(PhotonStep(s, i), i + 1, n)

CoElectronStep(e) ==
    LET x == e.x + e.vx
        y == e.y + e.vy
    IN  [e EXCEPT !.x = x, !.y = y,
                  !.dead = @ \/ x < 0 \/ x > CoWidth * 100
                             \/ y < 0 \/ y > CoHeight * 100]

\* Variant for C23: the target is never reset.
AutoReset_off(s) == s

\* the auto-reset check at the end of updateEntities
AutoReset(s) ==
    IF s.targetHit /\ Len(s.photons) = 0 /\ Len(s.electrons) = 0
    THEN [s EXCEPT !.targetHit = FALSE]
    ELSE s

updateEntities(s) ==
    LET s1 == PhotonLoop(s, 1, Len(s.photons))
        s2 == [s1 EXCEPT !.photons = SelectSeq(@, LAMBDA p : ~p.dead)]
        moved == [i \in DOMAIN s2.electrons |-> CoElectronStep(s2.electrons[i])]
        s3 == [s2 EXCEPT !.electrons = SelectSeq(moved, LAMBDA e : ~e.dead)]
    IN  AutoReset(s3)

\* drawEntities: the moving electrons, then the photons
drawEntities(s) ==
    [i \in DOMAIN s.electrons |->
        [id |-> s.electrons[i].id, pending |-> 0,
         x |-> s.electrons[i].x, y |-> s.electrons[i].y]]
    \o
    [i \in DOMAIN s.photons |->
        [id |-> s.photons[i].id, pending |-> 0,
         x |-> s.photons[i].x, y |-> s.photons[i].y]]

CoLoop ==
    /\ page = "compton"
    /\ co.frames < MaxTicks
    /\ \E s \in {[updateEntities(co) EXCEPT !.frames = @ + 1]} :
           /\ co' = s
           /\ drawn' = drawEntities(s)
    /\ UNCHANGED <<page, now, events, pe, mk, fh, sn>>

CoFire ==
    /\ page = "compton"
    /\ co.nextId <= MaxElectrons
    /\ co' = firePhoton(co)
    /\ UNCHANGED <<page, now, drawn, events, pe, mk, fh, sn>>

CoWavelength ==
    /\ page = "compton"
    /\ \E v \in CoLambdaInputs : co' = coUpdatePhysics([co EXCEPT !.lambda = v])
    /\ Control
    /\ UNCHANGED <<page, now, drawn, pe, mk, fh, sn>>

CoAngle ==
    /\ page = "compton"
    /\ \E v \in CoThetaInputs : co' = coUpdatePhysics([co EXCEPT !.theta = v])
    /\ Control
    /\ UNCHANGED <<page, now, drawn, pe, mk, fh, sn>>

NextCo ==
    \/ CoLoop
    \/ CoFire
    \/ CoWavelength
    \/ CoAngle

----------------------------------------------------------------------------
(* Snell page (src/202_sinif_deneyleri.js)                                  *)
(*                                                                         *)
(* pointXRel and the interval step in millionths of the canvas width, the  *)
(* positions inside optimizePath and updateDashboard in thousandths,       *)
(* speeds in tenths of a m/s, times in ms.                                  *)

startRel == [x |-> 150, y |-> 200]
endRel == [x |-> 850, y |-> 800]
boundaryYRel == 500

\* canvas.width and canvas.height in px (resizeCanvas: height = width * 0.5)
SnWidth == 1000
SnHeight == 500

\* x of the mouse events, px from the left edge of the canvas
SnMouseX == {0, 1000}

\* values the two speed sliders deliver
SnSpeedInputs == {10, 30}

\* user events the model lets the Snell page handle
SnMaxEvents == 4

SnControl == events < SnMaxEvents /\ events' = events + 1

\* the 40 bisection steps of optimizePath
RECURSIVE Bisect(_, _, _, _, _)
Bisect(low, high, i, v1Val, v2Val) ==
    IF i = 40 THEN (low + high) \div 2
    ELSE LET mid == (low + high) \div 2
             d1 == ISqrt((mid - startRel.x) * (mid - startRel.x)
                         + (boundaryYRel - startRel.y) * (boundaryYRel - startRel.y))
             d2 == ISqrt((endRel.x - mid) * (endRel.x - mid)
                         + (endRel.y - boundaryYRel) * (endRel.y - boundaryYRel))
             \* sinTheta1 / v1Val - sinTheta2 / v2Val > 0
             diffPositive == (mid - startRel.x) * d2 * v2Val
                                > (endRel.x - mid) * d1 * v1Val
         IN  IF diffPositive THEN Bisect(low, mid, i + 1, v1Val, v2Val)
             ELSE Bisect(mid, high, i + 1, v1Val, v2Val)

\* the least-time crossing point, in millionths
optimizePath(v1Val, v2Val) ==
    LET low == IF startRel.x < endRel.x THEN startRel.x ELSE endRel.x
        high == IF startRel.x > endRel.x THEN startRel.x ELSE endRel.x
    IN  Bisect(low, high, 0, v1Val, v2Val) * 1000

\* (dist1 / v1) + (dist2 / v2) for the crossing point px (thousandths), ms
TravelTime(px, v1Val, v2Val) ==
    LET d1 == ISqrt((px - startRel.x) * (px - startRel.x)
                    + (boundaryYRel - startRel.y) * (boundaryYRel - startRel.y))
        d2 == ISqrt((endRel.x - px) * (endRel.x - px)
                    + (endRel.y - boundaryYRel) * (endRel.y - boundaryYRel))
    IN  (d1 * 1000) \div v1Val + (d2 * 1000) \div v2Val

\* optimizePath for every pair of speeds the page can be in, computed once
SnSpeeds == SnSpeedInputs \cup {10, 20}
OptimalX == [a \in SnSpeeds |-> [b \in SnSpeeds |-> optimizePath(a, b)]]

\* draw() ends with updateDashboard(): isOptimal is diff < 0.05
updateDashboard(s) ==
    LET time == TravelTime(s.pointXRel \div 1000, s.v1, s.v2)
        minTime == TravelTime(OptimalX[s.v1][s.v2] \div 1000, s.v1, s.v2)
    IN  [s EXCEPT !.isOptimal = time - minTime < 50]

SnInit == [v1 |-> 20, v2 |-> 10, pointXRel |-> 500000,
           isDragging |-> FALSE, hasInteracted |-> FALSE,
           btnDisabled |-> FALSE,
           isOptimal |-> FALSE,   \* the indicator as the markup shows it
           intervals |-> <<>>,    \* the closures of the running setInterval calls:
                                  \* [step, count, targetRel, v1, v2 at the click]
           finished |-> 0]        \* optimize animations that have finished

handleDown(s, x, y) ==
    IF /\ Abs(x * 1000000 - s.pointXRel * SnWidth) < 30 * 1000000
       /\ Abs(y * 1000 - boundaryYRel * SnHeight) < 30 * 1000
    THEN [s EXCEPT !.isDragging = TRUE, !.hasInteracted = TRUE]
    ELSE s

\* Math.max(0.05, Math.min(0.95, x / canvas.width))
ClampX(x) ==
    LET r == (x * 1000000) \div SnWidth
        m == IF r < 950000 THEN r ELSE 950000
    IN  IF m > 50000 THEN m ELSE 50000

handleMove(s, x) ==
    IF s.isDragging
    THEN updateDashboard([s EXCEPT !.pointXRel = ClampX(x)])
    ELSE s

\* the click listener of the optimize button
optimizeClick(s) ==
    LET targetRel == OptimalX[s.v1][s.v2]
        step == TDiv(targetRel - s.pointXRel, 30)
    IN  [s EXCEPT !.btnDisabled = TRUE,
                  !.intervals = Append(@, [step |-> step, count |-> 0,
                                           targetRel |-> targetRel])]

\* one call of the setInterval callback of the interval at index i
intervalStep(s, i) ==
    LET c == s.intervals[i]
        s1 == updateDashboard([s EXCEPT !.pointXRel = @ + c.step,
                                        !.intervals[i].count = @ + 1,
                                        !.hasInteracted = TRUE])
    IN  IF c.count + 1 >= 30
        THEN updateDashboard(
               [s1 EXCEPT !.pointXRel = c.targetRel,
                          !.intervals = SubSeq(@, 1, i - 1) \o SubSeq(@, i + 1, Len(@)),
                          !.btnDisabled = FALSE,
                          !.finished = @ + 1])
        ELSE s1

SnMouseDown ==
    /\ page = "snell"
    /\ \E x \in SnMouseX \cup {(sn.pointXRel * SnWidth) \div 1000000},
          y \in {0, (boundaryYRel * SnHeight) \div 1000} :
         sn' = handleDown(sn, x, y)
    /\ SnControl
    /\ UNCHANGED <<page, now, drawn, pe, mk, fh, co>>

SnMouseMove ==
    /\ page = "snell"
    /\ \E x \in SnMouseX : sn' = handleMove(sn, x)
    /\ SnControl
    /\ UNCHANGED <<page, now, drawn, pe, mk, fh, co>>

\* mouseup, mouseleave, touchend
SnMouseUp ==
    /\ page = "snell"
    /\ sn' = [sn EXCEPT !.isDragging = FALSE]
    /\ SnControl
    /\ UNCHANGED <<page, now, drawn, pe, mk, fh, co>>

SnV1Slider ==
    /\ page = "snell"
    /\ \E v \in SnSpeedInputs : sn' = updateDashboard([sn EXCEPT !.v1 = v])
    /\ SnControl
    /\ UNCHANGED <<page, now, drawn, pe, mk, fh, co>>

SnV2Slider ==
    /\ page = "snell"
    /\ \E v \in SnSpeedInputs : sn' = updateDashboard([sn EXCEPT !.v2 = v])
    /\ SnControl
    /\ UNCHANGED <<page, now, drawn, pe, mk, fh, co>>

\* a disabled button delivers no click
SnOptimizeBtn ==
    /\ page = "snell"
    /\ ~sn.btnDisabled
    /\ sn' = optimizeClick(sn)
    /\ SnControl
    /\ UNCHANGED <<page, now, drawn, pe, mk, fh, co>>

\* the 16 ms timer of a running interval fires
SnTimer ==
    /\ page = "snell"
    /\ \E i \in DOMAIN sn.intervals : sn' = intervalStep(sn, i)
    /\ UNCHANGED <<page, now, drawn, events, pe, mk, fh, co>>

NextSn ==
    \/ SnMouseDown
    \/ SnMouseMove
    \/ SnMouseUp
    \/ SnV1Slider
    \/ SnV2Slider
    \/ SnOptimizeBtn
    \/ SnTimer

----------------------------------------------------------------------------
(* Specifications *)

Pages == {"millikan", "photoelectric", "frankhertz", "compton"}

Init ==
    /\ page \in Pages
    /\ now = 0
    /\ drawn = <<>>
    /\ events = 0
    /\ pe = PeInit
    /\ mk = MkInit
    \* the tube canvas gets its width from the layout of the Franck-Hertz
    \* page; on the other pages the field is not used and keeps one value
    /\ \E w \in TubeWidths :
          /\ fh = [s |-> FhInit, width |-> w]
          /\ page # "frankhertz" => \A x \in TubeWidths : x <= w
    /\ co = CoInit
    /\ sn = SnInit

InitPe == Init /\ page = "photoelectric"

SpecPe == InitPe /\ [][NextPe]_vars

InitFh == Init /\ page = "frankhertz"

SpecFh == InitFh /\ [][NextFh]_vars

InitMk == Init /\ page = "millikan"

SpecMk == InitMk /\ [][NextMk]_vars

InitCo == Init /\ page = "compton"

SpecCo == InitCo /\ [][NextCo]_vars

Next == NextMk \/ NextPe \/ NextFh \/ NextCo

Spec == Init /\ [][Next]_vars

\* the two pages whose loops splice while they iterate
InitLoops == Init /\ page \in {"millikan", "frankhertz"}

SpecLoops == InitLoops /\ [][NextMk \/ NextFh]_vars

InitSn ==
    /\ page = "snell"
    /\ now = 0
    /\ drawn = <<>>
    /\ events = 0
    /\ pe = PeInit
    /\ mk = MkInit
    /\ \E w \in TubeWidths :
          /\ fh = [s |-> FhInit, width |-> w]
          /\ \A x \in TubeWidths : x <= w
    /\ co = CoInit
    /\ sn = SnInit

SpecSn == InitSn /\ [][NextSn]_vars

----------------------------------------------------------------------------
(* The stopwatch of the Millikan page.                                      *)

\* how far Date.now() moves between two events or frames (ms)
ClockSteps == {1, 3}

\* the model stops the clock here
MaxDate == 8

\* Variant for C27: a stop overwrites the accumulated time.
toggleStopwatch_overwrite(m) ==
    IF m.stopwatch.running
    THEN [m EXCEPT !.stopwatch.running = FALSE,
                   !.stopwatch.elapsedTime = m.date - m.stopwatch.startTime]
    ELSE [m EXCEPT !.stopwatch.running = TRUE,
                   !.stopwatch.startTime = m.date]

toggleStopwatch(m) ==
    IF m.stopwatch.running
    THEN [m EXCEPT !.stopwatch.running = FALSE,
                   !.stopwatch.elapsedTime = @ + (m.date - m.stopwatch.startTime)]
    ELSE [m EXCEPT !.stopwatch.running = TRUE,
                   !.stopwatch.startTime = m.date]

resetStopwatch(m) ==
    [m EXCEPT !.stopwatch.running = FALSE,
              !.stopwatch.elapsedTime = 0,
              !.stopwatch.display = 0,
              !.ran = 0]

\* the stopwatch block at the end of loop
StopwatchUpdate(m) ==
    IF m.stopwatch.running
    THEN [m EXCEPT !.stopwatch.display =
                      m.stopwatch.elapsedTime + (m.date - m.stopwatch.startTime)]
    ELSE m

\* time passes
SwClock ==
    /\ page = "millikan"
    /\ \E d \in ClockSteps :
         /\ mk.date + d <= MaxDate
         /\ mk' = [mk EXCEPT !.date = @ + d,
                             !.ran = IF mk.stopwatch.running THEN @ + d ELSE @]
    /\ UNCHANGED <<page, now, drawn, events, pe, fh, co, sn>>

SwToggle ==
    /\ page = "millikan"
    /\ mk' = toggleStopwatch(mk)
    /\ UNCHANGED <<page, now, drawn, events, pe, fh, co, sn>>

SwReset ==
    /\ page = "millikan"
    /\ mk' = resetStopwatch(mk)
    /\ UNCHANGED <<page, now, drawn, events, pe, fh, co, sn>>

SwFrame ==
    /\ page = "millikan"
    /\ mk' = StopwatchUpdate(mk)
    /\ UNCHANGED <<page, now, drawn, events, pe, fh, co, sn>>

NextSw == SwClock \/ SwToggle \/ SwReset \/ SwFrame

SpecSw == InitMk /\ [][NextSw]_vars

----------------------------------------------------------------------------
(* Lifetime of a particle: the update functions applied tick after tick to *)
(* a pool that no spawn refills, under fixed control settings.             *)

\* anode voltages of the photoelectric tube: 0, retarding and accelerating
LifeVoltages == {-1500, -1, 0, 1, 1500}

\* emission spreads of the electron under observation, tenths of a radian
LifeSpreads == {-5, 0, 5}

\* Franck-Hertz settings of the electron under observation
LifeAcc == {0, 400, 800}
LifeRet == {-15, 0, 15, 300}
LifeTemp == {120, 180, 250}
LifeVx0 == {50, 100}

\* the frame gap of the lifetime ticks (ms)
LifeGap == 100

\* Compton settings at the fire under observation
LifeLambdas == {1000, 7100, 65000}
LifeThetas == {0, 1, 45, 90, 135, 170, 180}

InitLife ==
    /\ page \in {"photoelectric", "frankhertz", "compton"}
    /\ now = 0
    /\ drawn = <<>>
    /\ events = 0
    /\ mk = MkInit
    /\ sn = SnInit
    /\ IF page = "compton"
       THEN \E l \in LifeLambdas, th \in LifeThetas :
               co = firePhoton(coUpdatePhysics([CoInit EXCEPT !.lambda = l,
                                                               !.theta = th]))
       ELSE co = CoInit
    /\ IF page = "photoelectric"
       THEN \E v \in LifeVoltages, sp \in LifeSpreads :
               pe = spawnRandomElectron([PeInit EXCEPT !.voltage = v],
                                        [theta |-> 0, spread |-> sp, ke |-> 90])
       ELSE pe = PeInit
    /\ IF page = "frankhertz"
       THEN \E w \in TubeWidths, a \in LifeAcc, r \in LifeRet,
               t \in LifeTemp, vx0 \in LifeVx0 :
               \* one electron in the tube, or an auto-scan just started
               \/ fh = [s |-> [FhInit EXCEPT !.vAcc = a, !.vRet = r,
                                             !.temperature = t,
                                             !.electrons = <<NewElectron(1, vx0)>>,
                                             !.nextId = 2],
                        width |-> w]
               \/ fh = [s |-> startAutoScan([FhInit EXCEPT !.vAcc = a, !.vRet = r,
                                                           !.temperature = t,
                                                           !.history = <<a>>]),
                        width |-> w]
       ELSE \E w \in TubeWidths :
               /\ fh = [s |-> FhInit, width |-> w]
               /\ \A x \in TubeWidths : x <= w

\* updateElectrons followed by the pruning of calculateRealCurrent, as loop
\* calls them, while the pool holds an electron
LifePeTick ==
    /\ page = "photoelectric"
    /\ pe.electrons # <<>>
    /\ \E timestamp \in {now + LifeGap} :
         \E s \in {updateElectrons(pe, timestamp)} :
           /\ pe' = [s EXCEPT !.hitHistory = PruneHits(@, timestamp)]
           /\ now' = timestamp
    /\ UNCHANGED <<page, drawn, events, mk, fh, co, sn>>

\* the electron loop of animate, while the pool holds an electron
LifeFhTick ==
    /\ page = "frankhertz"
    /\ fh.s.electrons # <<>>
    /\ \E hits \in [1..Len(fh.s.electrons) -> BOOLEAN] :
         \E es \in {fh.s.electrons} :
            fh' = [fh EXCEPT !.s.electrons =
                      UpdateFrom(Len(es), es, fh.s, fh.width, hits).electrons]
    /\ UNCHANGED <<page, now, drawn, events, pe, mk, co, sn>>

\* updateEntities and drawEntities, as loop calls them, while a pool holds
\* a particle
LifeCoTick ==
    /\ page = "compton"
    /\ co.photons # <<>> \/ co.electrons # <<>>
    /\ \E s \in {updateEntities(co)} :
         /\ co' = s
         /\ drawn' = drawEntities(s)
    /\ UNCHANGED <<page, now, events, pe, mk, fh, sn>>

\* the auto-scan block at the head of animate, while a scan is on
LifeScanTick ==
    /\ page = "frankhertz"
    /\ fh.s.autoScanning
    /\ fh' = [fh EXCEPT !.s = AutoScanStep(fh.s)]
    /\ UNCHANGED <<page, now, drawn, events, pe, mk, co, sn>>

NextLife == LifePeTick \/ LifeFhTick \/ LifeCoTick \/ LifeScanTick

\* requestAnimationFrame schedules the next tick at the end of every tick
SpecLife ==
    /\ InitLife /\ [][NextLife]_vars
    /\ WF_vars(LifePeTick) /\ WF_vars(LifeFhTick) /\ WF_vars(LifeCoTick)
    /\ WF_vars(LifeScanTick)

----------------------------------------------------------------------------
(* Properties *)

\* an animation frame of the loaded page has run
Frame ==
    \/ pe'.time # pe.time
    \/ mk'.frames # mk.frames
    \/ fh'.s.frames # fh.s.frames
    \/ co'.frames # co.frames

\* identities of the particles in the pool of the loaded page
PoolIds ==
    CASE page = "photoelectric" -> {pe.electrons[i].id : i \in DOMAIN pe.electrons}
      [] page = "millikan" -> {mk.drops[i].id : i \in DOMAIN mk.drops}
      [] page = "frankhertz" -> {fh.s.electrons[i].id : i \in DOMAIN fh.s.electrons}
      [] OTHER -> {co.photons[i].id : i \in DOMAIN co.photons}
                  \cup {co.electrons[i].id : i \in DOMAIN co.electrons}

\* C1 -- Photoelectric window invariant.  After calculateRealCurrent has
\* run for the frame with timestamp `now`, hitHistory holds only hit times t
\* with t > now - 500, and the count the frame read is the count after the
\* pruning: it is exactly the number of hits ever recorded whose time is
\* inside the window.
C1_WindowInvariant ==
    /\ \A i \in DOMAIN pe.hitHistory : pe.hitHistory[i] > now - 500
    /\ pe.current = 4 * Cardinality({i \in DOMAIN pe.hitLog : pe.hitLog[i].t > now - 500})

\* two hits were recorded, the older one exactly 500 ms before this frame:
\* it has been pruned, the newer one is kept
C1_Witness ==
    /\ Len(pe.hitLog) = 2
    /\ pe.hitLog[1].t = now - 500
    /\ pe.hitHistory = <<pe.hitLog[2].t>>

\* C2 -- Threshold gating.  In every frame that starts with
\* HC / lambda <= workFunction no spawn attempt adds an electron: no new
\* electron object is made and the pool holds only electrons it held before,
\* whatever the intensity.
C2_ThresholdGating ==
    [][(pe'.time # pe.time /\ HC * 100 <= pe.workFunction * pe.lambda)
         => /\ pe'.nextId = pe.nextId
            /\ {pe'.electrons[i].id : i \in DOMAIN pe'.electrons}
                 \subseteq {pe.electrons[i].id : i \in DOMAIN pe.electrons}]_vars

\* spawnElectron was called at 700 nm against the 4.70 eV metal and returned
\* early; no electron has ever been emitted
C2_Witness ==
    /\ [lambda |-> 700, workFunction |-> 470] \in pe.refused
    /\ pe.nextId = 1
    /\ pe.time >= 2

\* C3 -- Millikan voltage clamp.  Whatever write path stored it (slider
\* handler, text-box handler, setVoltage), the stored voltage lies within
\* [-2000, 2000].
C3_VoltageClamped == mk.voltage >= -2000 /\ mk.voltage <= 2000

\* C4 -- Finite state.  After any frame every Franck-Hertz electron still
\* in the pool has a finite position, velocity and energy, also when the
\* accelerating voltage is negative.
C4_FiniteState ==
    \A i \in DOMAIN fh.s.electrons :
        /\ IsFinite(fh.s.electrons[i].x)
        /\ IsFinite(fh.s.electrons[i].vx)
        /\ IsFinite(fh.s.electrons[i].energy)

\* C5 -- Aggregator update rule.  Every photoelectric frame computes
\* instantaneous = count * 0.2 * (1000 / 500) from the hits left after the
\* pruning and sets ammeterCurrent to 0.9 * ammeterCurrent +
\* 0.1 * instantaneous; every other step leaves ammeterCurrent alone.
C5_UpdateRule ==
    [][IF pe'.time # pe.time
       THEN /\ pe'.current = 4 * Len(pe'.hitHistory)
            /\ pe'.ammeterCurrent.e = pe.ammeterCurrent.e + 1
            /\ pe'.ammeterCurrent.m =
                   9 * pe.ammeterCurrent.m + pe'.current * Pow10(pe.ammeterCurrent.e)
       ELSE pe'.ammeterCurrent = pe.ammeterCurrent]_vars

\* the ammeter shows a current, the hit behind it has left the window, and
\* the voltage has been set and zeroed again in between
C5_Witness ==
    /\ pe.ammeterCurrent.m > 0
    /\ pe.hitHistory = <<>>
    /\ pe.voltage = 0
    /\ events = 2

\* C6 -- Windowed decay.  In every frame whose timestamp is at least
\* 500 ms after the last recorded hit the instantaneous rate is 0 and
\* ammeterCurrent is multiplied by 0.9.
C6_WindowedDecay ==
    [][(pe'.time # pe.time
        /\ \A i \in DOMAIN pe'.hitLog : now' - pe'.hitLog[i].t >= 500)
         => /\ pe'.current = 0
            /\ pe'.ammeterCurrent.e = pe.ammeterCurrent.e + 1
            /\ pe'.ammeterCurrent.m = 9 * pe.ammeterCurrent.m]_vars

\* one hit raised the ammeter to 0.04 uA; two frames after the window had
\* elapsed it shows 0.04 * 0.9 * 0.9 = 0.0324 uA
C6_Witness ==
    /\ Len(pe.hitLog) = 1
    /\ pe.current = 0
    /\ pe.ammeterCurrent = [m |-> 32400, e |-> 5]

\* C7 -- Same-frame visibility.  The hits updateElectrons records in a
\* frame are in hitHistory when that frame's calculateRealCurrent runs and
\* are counted in its instantaneous rate, and what drawElectrons draws is the
\* pool as it is after the advance, the recording and the aggregation.
C7_SameTickVisibility ==
    [][pe'.time # pe.time
         => LET fresh == {i \in DOMAIN pe'.hitLog : i > Len(pe.hitLog)}
            IN  /\ Cardinality({i \in DOMAIN pe'.hitHistory : pe'.hitHistory[i] = now'})
                     = Cardinality(fresh)
                /\ pe'.current >= 4 * Cardinality(fresh)
                /\ Len(drawn') = Len(pe'.electrons)
                /\ \A i \in DOMAIN drawn' :
                       /\ drawn'[i].id = pe'.electrons[i].id
                       /\ drawn'[i].x = pe'.electrons[i].x
                       /\ drawn'[i].y = pe'.electrons[i].y]_vars

\* the last frame recorded a hit and counted it, while another electron was
\* still in flight and was drawn
C7_Witness ==
    /\ pe.hitLog # <<>>
    /\ pe.hitLog[Len(pe.hitLog)].t = now
    /\ now \in Range(pe.hitHistory)
    /\ pe.current >= 4
    /\ Len(drawn) = 1

\* C8 -- Post-frame snapshot.  On every page, what a frame draws of a pool
\* is the pool after the frame: nothing is drawn while other particles of
\* the pool still wait to be advanced, and nothing the frame removes from
\* the pool is drawn.
C8_PostTickSnapshot ==
    [][Frame => \A i \in DOMAIN drawn' :
                    /\ drawn'[i].pending = 0
                    /\ drawn'[i].id \in PoolIds']_vars

\* C9 -- Cull after the frame, as the claim states it: at the end of every
\* frame, in every zoom state, no Millikan drop is more than 50 px outside
\* the canvas, no photoelectric electron is dead or outside the tube, no
\* Franck-Hertz electron is inactive or has energy <= 0 in the retarding
\* region, and no Compton photon or electron is flagged dead.
C9_CullEveryZoom ==
    [][Frame =>
        /\ \A i \in DOMAIN mk'.drops :
              /\ mk'.drops[i].x >= -50000 /\ mk'.drops[i].x <= 850000
              /\ mk'.drops[i].y >= -50000 /\ mk'.drops[i].y <= 550000
        /\ \A i \in DOMAIN pe'.electrons :
              /\ ~pe'.electrons[i].dead
              /\ pe'.electrons[i].x >= 30000 /\ pe'.electrons[i].x <= 80000
              /\ pe'.electrons[i].y >= 13000 /\ pe'.electrons[i].y <= 37000
        /\ \A i \in DOMAIN fh'.s.electrons :
              LET e == fh'.s.electrons[i]
              IN  /\ e.active
                  /\ ~(/\ ~FLt(e.x, Num((fh.width - 60) * 100))
                       /\ FLt(e.x, Num((fh.width - 20) * 100))
                       /\ FLe(e.energy, Num(0)))
        /\ \A i \in DOMAIN co'.photons : ~co'.photons[i].dead
        /\ \A i \in DOMAIN co'.electrons : ~co'.electrons[i].dead]_vars

\* C9 -- Cull after the frame, as the code does it.  At the end of every
\* frame: while the camera is not zoomed in, no Millikan drop is more than
\* 50 px outside the canvas (the cull is suspended while zoomed in); no
\* photoelectric electron is dead or outside the tube; every Franck-Hertz
\* electron is active and not beyond the canvas, and does not have
\* energy <= 0 if it was already at or beyond the grid when the frame began
\* (an electron that crosses the grid in this frame meets the retarding test
\* in the next); no Compton photon or electron is flagged dead.
C9_CullAfterTick ==
    [][Frame =>
        /\ mk'.zoom = 1 =>
              \A i \in DOMAIN mk'.drops :
                 /\ mk'.drops[i].x >= -50000 /\ mk'.drops[i].x <= 850000
                 /\ mk'.drops[i].y >= -50000 /\ mk'.drops[i].y <= 550000
        /\ \A i \in DOMAIN pe'.electrons :
              /\ ~pe'.electrons[i].dead
              /\ pe'.electrons[i].x >= 30000 /\ pe'.electrons[i].x <= 80000
              /\ pe'.electrons[i].y >= 13000 /\ pe'.electrons[i].y <= 37000
        /\ \A i \in DOMAIN fh'.s.electrons :
              LET e == fh'.s.electrons[i]
                  wasPastGrid ==
                      \E j \in DOMAIN fh.s.electrons :
                          /\ fh.s.electrons[j].id = e.id
                          /\ ~FLt(fh.s.electrons[j].x, Num((fh.width - 60) * 100))
              IN  /\ e.active
                  /\ ~FLt(Num(fh.width * 100), e.x)
                  /\ wasPastGrid => ~FLe(e.energy, Num(0))
        /\ \A i \in DOMAIN co'.photons : ~co'.photons[i].dead
        /\ \A i \in DOMAIN co'.electrons : ~co'.electrons[i].dead]_vars

\* a frame has run with the camera zoomed in on the selected drop, and a
\* drop more than 50 px outside the canvas is still in the pool
C9_Witness ==
    /\ mk.zoom > 1
    /\ mk.frames >= 2
    /\ \E i \in DOMAIN mk.drops :
          mk.drops[i].y > 550000 \/ mk.drops[i].y < -50000

FhIds == {fh.s.electrons[i].id : i \in DOMAIN fh.s.electrons}

C12_ResetPostcondition ==
    [][FhReset => /\ fh'.s.electrons = <<>>
                  /\ fh'.s.history = <<>>
                  /\ fh'.s.vAcc = FhInit.vAcc
                  /\ fh'.s.vRet = FhInit.vRet
                  /\ fh'.s.temperature = FhInit.temperature
                  /\ fh'.s.autoScanning = FhInit.autoScanning]_vars

\* the particle objects of one type pushed so far on the Compton page
CoMade(type) == {k \in DOMAIN co.made : co.made[k].type = type}

\* C13 -- Compton fireOnce.  Every firePhoton adds exactly one incident
\* photon to the pool; scatter() is called at most once for an incident
\* photon, in the frame in which its front is first found at the centre,
\* and each call creates exactly one scattered photon and one recoil
\* electron; so the number of scattered photons ever created equals the
\* number of incident photons that reached the centre and is at most the
\* number of fires.
C13_FireOnce ==
    [][/\ CoFire =>
            /\ Len(co'.photons) = Len(co.photons) + 1
            /\ SubSeq(co'.photons, 1, Len(co.photons)) = co.photons
            /\ co'.photons[Len(co'.photons)].type = "incident"
            /\ co'.photons[Len(co'.photons)].id = co.nextId
            /\ co'.scatterLog = co.scatterLog
       /\ CoLoop =>
            LET reached == {co.photons[i].id : i \in
                              {j \in DOMAIN co.photons :
                                  /\ co.photons[j].type = "incident"
                                  /\ co.photons[j].x + co.photons[j].vx
                                       + PacketHalfLength(co.photons[j].lambda)
                                       >= CoGEO.centerX}}
            IN  /\ reached \subseteq Range(co'.scatterLog)
                /\ Range(co'.scatterLog) \ Range(co.scatterLog) \subseteq reached
                /\ co'.fires = co.fires
       /\ Cardinality(Range(co'.scatterLog)) = Len(co'.scatterLog)
       /\ Cardinality(CoMade("incident")') = co'.fires
       /\ Cardinality(CoMade("scattered")') = Len(co'.scatterLog)
       /\ Cardinality(CoMade("electron")') = Len(co'.scatterLog)
       /\ Len(co'.made) = co'.nextId - 1
       /\ \A k \in DOMAIN co'.scatterLog :
             \E m \in CoMade("incident")' : co'.made[m].id = co'.scatterLog[k]
       /\ Len(co'.scatterLog) <= co'.fires]_vars

\* two photons were fired, both have scattered, and the first of them is
\* past the centre and still in the pool
C13_Witness ==
    /\ co.fires = 2
    /\ Len(co.scatterLog) = 2
    /\ \E i \in DOMAIN co.photons :
          /\ co.photons[i].type = "incident"
          /\ co.photons[i].hasHit
          /\ co.frames >= 2

\* C14 -- photoelectric spawn attempts.  With r = intensity * 0.03 a frame
\* makes floor(r) or floor(r) + 1 calls of spawnRandomElectron; the extra
\* call needs a non-zero remainder r - floor(r); at intensity 0 the frame
\* makes no call.
C14_SpawnAttempts ==
    [][pe'.time # pe.time =>
          LET r == pe.intensity * 3
          IN  /\ pe'.attempts \in {r \div 100, r \div 100 + 1}
              /\ r % 100 = 0 => pe'.attempts = r \div 100
              /\ pe.intensity = 0 => pe'.attempts = 0]_vars

\* a frame at intensity 40 (r = 1.2) has made the guaranteed call and the
\* extra one
C14_Witness ==
    /\ pe.time >= 1
    /\ pe.intensity = 40
    /\ pe.attempts = 2

\* C15 -- steady-state velocity each tick: the velocity a particle has after
\* a tick is recomputed from the force of that tick and, the jitter draw
\* being the same, does not depend on the velocity it had before: a
\* particle that differs from a pooled one in its previous velocity alone
\* has the same velocity after the update.  Stated for Millikan drops and
\* for photoelectric electrons under the anode voltage.
C15_SteadyStateVelocity ==
    /\ \A i \in DOMAIN mk.drops : \A w \in {-1000, 0, 1000} :
          \A dt \in MkFrameGaps, j \in JitterDraws :
             LET a == DropUpdate(mk.drops[i], mk.voltage, dt, j)
                 b == DropUpdate([mk.drops[i] EXCEPT !.vx = w, !.vy = w],
                                 mk.voltage, dt, j)
             IN  a.vx = b.vx /\ a.vy = b.vy
    /\ \A i \in DOMAIN pe.electrons : \A w \in {-1000, 0, 1000} :
          LET a == MoveElectron(pe, pe.electrons[i]).e
              b == MoveElectron(pe, [pe.electrons[i] EXCEPT !.vx = w]).e
          IN  a.vx = b.vx

\* C16 -- zero-denominator policy on the Franck-Hertz page: when the
\* cathode-to-grid distance gridX - cathodeX is exactly 0 (tube canvas
\* 100 px wide) the accelerating field contributes nothing to an electron:
\* the update of the pooled electrons and of a newly emitted one leaves
\* position, velocity and energy finite and does not raise the energy,
\* whatever the accelerating voltage.
C16_ZeroDenominator ==
    (fh.width - 60) - 40 = 0 =>
        \A hit \in BOOLEAN :
           \A e \in Range(fh.s.electrons)
                    \cup {NewElectron(fh.s.nextId, v) : v \in Vx0Draws} :
              LET u == ElectronUpdate(e, fh.s, fh.width, hit).e
              IN  /\ IsFinite(e.x) /\ IsFinite(e.vx) /\ IsFinite(e.energy)
                  /\ IsFinite(u.x) /\ IsFinite(u.vx) /\ IsFinite(u.energy)
                  /\ FLe(u.energy, e.energy)

\* at a 100 px canvas an electron has been emitted and updated at 40 V
C16_Witness ==
    /\ (fh.width - 60) - 40 = 0
    /\ fh.s.vAcc = 400
    /\ fh.s.frames >= 1
    /\ fh.s.nextId > 1

\* C17 -- single random draw.  In a Franck-Hertz frame an electron that is
\* updated between cathode and grid with energy >= 4.9 eV, at
\* dipStrength > 0.01, draws exactly one sample, and the outcome of that
\* one comparison decides whether it collides; any other electron draws no
\* sample and does not collide; no electron collides twice in a frame.
C17_SingleDraw ==
    [][fh'.s.frames # fh.s.frames =>
         LET gridX == Num((fh.width - 60) * 100)
             dip == getTemperatureFactor(fh.s.temperature).dipStrength
             S == fh'.s.sampled
             C == fh'.s.collided
             began(id) == \/ id \notin FhIds
                          \/ \E j \in DOMAIN fh.s.electrons :
                                /\ fh.s.electrons[j].id = id
                                /\ FLt(fh.s.electrons[j].x, gridX)
         IN  /\ \A k, l \in DOMAIN S : S[k].id = S[l].id => k = l
             /\ \A k, l \in DOMAIN C : C[k].id = C[l].id => k = l
             /\ \A k \in DOMAIN C : \E l \in DOMAIN S : S[l].id = C[k].id /\ S[l].hit
             /\ \A l \in DOMAIN S :
                   /\ began(S[l].id)
                   /\ S[l].hit => \E k \in DOMAIN C : C[k].id = S[l].id
             /\ \A i \in DOMAIN fh'.s.electrons :
                   LET e == fh'.s.electrons[i]
                       hitNow == \E k \in DOMAIN C : C[k].id = e.id
                       energy1 == IF hitNow THEN FAdd(e.energy, Num(490)) ELSE e.energy
                       eligible == /\ began(e.id)
                                   /\ FLe(Num(490), energy1)
                                   /\ dip > 10
                   IN  eligible <=> \E l \in DOMAIN S : S[l].id = e.id]_vars

\* in one frame an electron with 10 eV drew a sample and collided and
\* another drew a sample and did not
C17_Witness ==
    /\ Len(fh.s.sampled) = 2
    /\ Len(fh.s.collided) = 1
    /\ \E l \in DOMAIN fh.s.sampled : ~fh.s.sampled[l].hit

\* the experiment parameters of the four pages
Params ==
    <<fh.s.vAcc, fh.s.vRet, fh.s.temperature, mk.voltage,
      pe.lambda, pe.intensity, pe.voltage, pe.workFunction,
      co.lambda, co.theta>>

\* C18 -- parameters change only at the control boundary: no animation
\* frame changes the value of an experiment parameter (Franck-Hertz vAcc,
\* vRet, temperature; Millikan voltage; photoelectric lambda, intensity,
\* voltage, workFunction; Compton lambda, theta).
C18_FramesKeepParams ==
    [][Frame => Params' = Params]_vars

\* C18, as the code has it: a frame changes no parameter but the
\* Franck-Hertz vAcc, and vAcc only while the auto-scan is on, by one
\* step of 0.1 V; the frame that reaches 80 V ends the scan.
C18_FramesKeepParamsButScan ==
    [][Frame =>
         /\ SubSeq(Params', 2, Len(Params)) = SubSeq(Params, 2, Len(Params))
         /\ ~fh.s.autoScanning => fh'.s.vAcc = fh.s.vAcc
         /\ fh.s.autoScanning =>
               /\ fh'.s.vAcc = fh.s.vAcc + 1
               /\ fh'.s.autoScanning <=> fh'.s.vAcc < 800]_vars

\* two frames into an auto-scan: vAcc has been raised to 0.2 V by frames
C18_Witness ==
    /\ fh.s.autoScanning
    /\ fh.s.vAcc = 2
    /\ fh.s.frames >= 2

\* C19 -- determinism: the events of a frame (spawns, collisions) and the
\* state it leaves are fixed by the state before it, the parameters and the
\* random draws of the frame; they depend on no other input.  On the
\* Franck-Hertz page: the same draws give the same frame whatever width the
\* layout has given the tube canvas.
C19_Determinism ==
    page = "frankhertz" =>
        \A spawn \in BOOLEAN, vx0 \in Vx0Draws, w \in TubeWidths :
           LET n == Len(fh.s.electrons) + (IF spawn THEN 1 ELSE 0)
           IN  \A hits \in [1..n -> BOOLEAN] :
                  LET a == FhAnimate(fh.s, fh.width, spawn, vx0, hits)
                      b == FhAnimate(fh.s, w, spawn, vx0, hits)
                  IN  /\ a.electrons = b.electrons
                      /\ a.collided = b.collided
                      /\ a.nextId = b.nextId

\* C20 -- Franck-Hertz dip scenario: at temperature 180 (dipStrength 1), for
\* every integer n for which v = n * 4.9 + 2.0 lies in the range 0 .. 80 V
\* of the accelerating voltage, calculateCurrent(v) is strictly smaller
\* than calculateCurrent(v - 1) and than calculateCurrent(v + 1).
C20_DipScenario ==
    fh.s.temperature = 180 =>
        \A n \in 0..16 :
           LET v == n * 49 + 20
           IN  v >= 0 /\ v <= 800 =>
                  /\ calculateCurrent(fh.s, v) < calculateCurrent(fh.s, v - 10)
                  /\ calculateCurrent(fh.s, v) < calculateCurrent(fh.s, v + 10)

\* C21 -- Compton scenario.  At lambda = 71 pm and theta = 45 degrees the
\* readouts are shift ~ 0.711 pm, lambda' ~ 71.711 pm, E_inc ~ 17.46 keV,
\* E_scat ~ 17.29 keV, K_e ~ 0.17 keV; for every lambda and theta
\* shift >= 0, lambda' = lambda + shift and K_e = E_inc - E_scat >= 0; and
\* the scattered photon that scatter() creates carries the lambda' of the
\* readout.
C21_ComptonScenario ==
    [][/\ co'.readout.shift >= 0
       /\ co'.readout.lambdaPrime = co'.lambda + co'.readout.shift
       /\ co'.readout.K_e = co'.readout.E_inc - co'.readout.E_scat
       /\ co'.readout.K_e >= 0
       /\ (co'.lambda = 7100 /\ co'.theta = 45) =>
             /\ co'.readout.shift = 71
             /\ co'.readout.lambdaPrime = 7171
             /\ co'.readout.E_inc \div 100 = 1746
             /\ co'.readout.E_scat \div 100 = 1729
             /\ co'.readout.K_e \div 100 = 17
       /\ CoLoop =>
             \A i \in DOMAIN co'.photons :
                (co'.photons[i].type = "scattered" /\ co'.photons[i].id >= co.nextId)
                   => co'.photons[i].lambda = co.readout.lambdaPrime]_vars

\* C22 -- Bounded memory.  Every particle in a pool is removed after
\* finitely many ticks: a photoelectric electron at every anode voltage (0,
\* retarding, accelerating), a Franck-Hertz electron at every vAcc >= 0,
\* vRet and temperature; and hitHistory holds only hits less than 500 ms
\* old.
C22_BoundedMemory ==
    /\ <>(pe.electrons = <<>> /\ fh.s.electrons = <<>>)
    /\ [](\A i \in DOMAIN pe.hitHistory : now - pe.hitHistory[i] < 500)

\* an electron emitted at anode voltage 0 has been removed, after more than
\* 100 ticks in the pool
C22_Witness ==
    /\ page = "photoelectric"
    /\ pe.voltage = 0
    /\ pe.nextId = 2
    /\ pe.electrons = <<>>
    /\ now > 100 * LifeGap

\* C23 -- Compton auto-reset.  After a fire that no other fire follows, the
\* incident photon, the scattered photon and the recoil electron are all
\* removed after finitely many ticks, for every theta in [0, 180] and every
\* lambda; and whenever a tick leaves both pools empty targetHit is false.
C23_AutoReset ==
    /\ <>(co.photons = <<>> /\ co.electrons = <<>> /\ ~co.targetHit)
    /\ []((co.photons = <<>> /\ co.electrons = <<>>) => ~co.targetHit)

\* the photon of the one fire has scattered and all three particles are gone
C23_Witness ==
    /\ page = "compton"
    /\ co.fires = 1
    /\ Len(co.scatterLog) = 1
    /\ Len(co.made) = 3
    /\ co.photons = <<>> /\ co.electrons = <<>>
    /\ ~co.targetHit

\* C24 -- Millikan auto-exit of zoom.  When the selected drop is lost while
\* the camera is zoomed (a click on empty space sets selectedDrop to null
\* and calls updateSelectionUI), camera.zoom is 1 and the zoom button shows
\* the locked state when updateSelectionUI returns.
C24_AutoExitZoom ==
    (mk.zoom > 1 /\ mk.selectedDrop # 0) =>
        LET m == updateSelectionUI([mk EXCEPT !.selectedDrop = 0])
        IN  m.zoom = 1 /\ m.zoomBtn = "locked"

\* C25 -- Millikan selection invariant.  selectedDrop is null or a drop of
\* the pool; a drop that is culled while selected is deselected in the same
\* tick, so a zoomed camera always has a drop of the pool to follow.
C25_SelectionInPool ==
    /\ mk.selectedDrop = 0 \/ mk.selectedDrop \in {d.id : d \in Range(mk.drops)}
    /\ \A id \in mk.deselected : id \notin {d.id : d \in Range(mk.drops)}

\* a selected drop has been culled, and another drop is still in the pool
C25_Witness ==
    /\ mk.deselected # {}
    /\ mk.drops # <<>>
    /\ mk.selectedDrop = 0

\* C26 -- Franck-Hertz auto-scan terminates.  startAutoScan leaves vAcc = 0
\* and an empty history; while the scan is on and the user does not
\* interrupt it every frame raises vAcc by 0.1 V; after finitely many
\* frames vAcc reaches 80 V, and in that frame autoScanning becomes false
\* and the accelerating-voltage slider is enabled again.  The scan is never
\* on at 80 V or above and never off below it.
C26_AutoScanTerminates ==
    /\ <>(~fh.s.autoScanning)
    /\ [](LET t == startAutoScan(fh.s)
          IN  t.autoScanning /\ t.accDisabled /\ t.vAcc = 0 /\ t.history = <<>>)
    /\ [](fh.s.autoScanning => fh.s.vAcc < 800 /\ fh.s.accDisabled)
    /\ []((fh.s.nextId = 1 /\ page = "frankhertz" /\ ~fh.s.autoScanning)
             => fh.s.vAcc = 800 /\ ~fh.s.accDisabled)
    /\ [][fh.s.autoScanning => fh'.s.vAcc = fh.s.vAcc + 1]_vars

\* a scan that ran from 0 V has reached 80 V and stopped
C26_Witness ==
    /\ page = "frankhertz"
    /\ fh.s.nextId = 1
    /\ fh.s.vAcc = 800
    /\ ~fh.s.autoScanning
    /\ ~fh.s.accDisabled

\* C27 -- Millikan stopwatch accounting.  After a stop elapsedTime is the
\* sum of the lengths of the running intervals since the last reset;
\* elapsedTime does not change while the stopwatch is stopped; a reset,
\* running or stopped, sets running = false and elapsedTime = 0, and the
\* next start counts from zero.
C27_StopwatchAccounting ==
    [][/\ ~mk'.stopwatch.running => mk'.stopwatch.elapsedTime = mk'.ran
       /\ (~mk.stopwatch.running /\ ~mk'.stopwatch.running)
             => \/ mk'.stopwatch.elapsedTime = mk.stopwatch.elapsedTime
                \/ SwReset
       /\ SwReset => ~mk'.stopwatch.running /\ mk'.stopwatch.elapsedTime = 0
       /\ (SwToggle /\ mk.stopwatch.running) =>
             mk'.stopwatch.elapsedTime =
                mk.stopwatch.elapsedTime + (mk.date - mk.stopwatch.startTime)
       /\ mk'.stopwatch.running =>
             mk'.ran = mk'.stopwatch.elapsedTime
                          + (mk'.date - mk'.stopwatch.startTime)]_vars

\* just stopped for the second time since the last reset: the interval
\* that ended now was 3 ms long, the one before it 1 ms
C27_Witness ==
    /\ ~mk.stopwatch.running
    /\ mk.stopwatch.elapsedTime = 4
    /\ mk.date = mk.stopwatch.startTime + 3
    /\ mk.stopwatch.startTime > 4

\* C28 -- Snell crossing-point bound.  pointXRel is within [0.05, 0.95] in
\* every reachable state, under any interleaving of drag events, speed
\* slider changes and timer steps of the optimize animation.
C28_PointInBounds ==
    sn.pointXRel >= 50000 /\ sn.pointXRel <= 950000

\* C29 -- Snell optimize animation.  A running animation has made fewer
\* than 30 timer steps and keeps the button disabled; the timer step that
\* is its 30th clears the interval and enables the button; at most one
\* animation runs; and when it finishes pointXRel is the least-time
\* crossing optimizePath(v1, v2) for the speeds then in force and the
\* dashboard shows the optimal state, whatever the user dragged or moved
\* while it ran.
C29_OptimizeAnimation ==
    [][/\ Len(sn'.intervals) <= 1
       /\ \A i \in DOMAIN sn'.intervals :
             sn'.intervals[i].count < 30 /\ sn'.btnDisabled
       /\ sn'.intervals = <<>> => ~sn'.btnDisabled
       /\ sn'.finished # sn.finished =>
             /\ sn.intervals[1].count = 29
             /\ sn'.intervals = <<>>
             /\ sn'.pointXRel = OptimalX[sn'.v1][sn'.v2]
             /\ sn'.isOptimal]_vars

\* C30 -- Exactly-once advance under in-place removal.  The Millikan and
\* Franck-Hertz loops update every particle that is in the pool when the
\* loop starts exactly once, whatever is spliced out on the way, and the
\* particles that remain keep their order: the pool after the loop is the
\* pool before it with every particle updated once and the removed ones
\* left out, and the Millikan loop draws every drop once.
C30_ExactlyOnce ==
    /\ page = "frankhertz" =>
          LET es == fh.s.electrons
          IN  \A hits \in [DOMAIN es -> BOOLEAN] :
                 UpdateFrom(Len(es), es, fh.s, fh.width, hits).electrons
                    = SelectSeq([i \in DOMAIN es |->
                                    ElectronUpdate(es[i], fh.s, fh.width, hits[i]).e],
                                LAMBDA e : ~Gone(e, fh.width))
    /\ page = "millikan" =>
          \A gap \in MkFrameGaps, j \in JitterDraws :
             LET timestamp == now + gap
                 dt == timestamp - (IF mk.lastTime = 0 THEN timestamp ELSE mk.lastTime)
                 r == MkLoopBody(mk, timestamp, j)
                 once == [i \in DOMAIN mk.drops |->
                             DropUpdate(mk.drops[i], mk.voltage, dt, j)]
             IN  /\ r.m.drops = SelectSeq(once,
                                    LAMBDA d : ~(isOffScreen(d) /\ r.m.zoom = 1))
                 /\ Len(r.drawn) = Len(mk.drops)
                 /\ \A i \in DOMAIN r.drawn :
                       r.drawn[i].id = mk.drops[Len(mk.drops) + 1 - i].id

\* two particles in the pool, and the coming tick removes one of them: on
\* the Franck-Hertz page the later one, on the Millikan page the earlier one
C30_Witness ==
    \/ /\ page = "frankhertz"
       /\ Len(fh.s.electrons) = 2
       /\ \E hits \in [1..2 -> BOOLEAN] :
             LET after == UpdateFrom(2, fh.s.electrons, fh.s, fh.width, hits).electrons
             IN  Len(after) = 1 /\ after[1].id = fh.s.electrons[1].id
    \/ /\ page = "millikan"
       /\ Len(mk.drops) = 2
       /\ \E gap \in MkFrameGaps, j \in JitterDraws :
             LET after == MkLoopBody(mk, now + gap, j).m.drops
             IN  Len(after) = 1 /\ after[1].id = mk.drops[2].id

============================================================================
